---- MODULE Spec2Model ----
(***************************************************************************)
(* Roster pipeline of maccas-roster-agents: the CP-SAT model builder       *)
(* (agents/generator.py), the compliance oracle (agents/compliance.py),    *)
(* the conflict resolver (agents/conflict_resolution.py) and the run that  *)
(* chains them (agents/orchestrator.py).                                   *)
(*                                                                         *)
(* Units: hours are integers in hundredths of an hour (850 = 8.5h), times  *)
(* of day are minutes after midnight, dates are day numbers.               *)
(***************************************************************************)
EXTENDS Integers, Sequences, FiniteSets, TLC

VARIABLES
    SHIFT_TEMPLATES,   \* compliance.SHIFT_TEMPLATES: code -> [start, end, hours]
    ctx,               \* SystemContext: employees, availability, demand_by_date
    window,            \* [start_date, end_date] handed to the generator
    heap,              \* the ShiftAssignment objects, addressed by reference
    roster,            \* the Roster under work: [store_id, start_date, end_date, assignments (refs)]
    pc,                \* position in the run
    violations,        \* result of the last check_roster call
    gen,               \* outcome of generate_initial_roster: [status, x, error]
    res,               \* locals of rebalance_hours and its result
    orc                \* locals and log of OrchestratorAgent.run, the check_roster calls it made

vars == <<SHIFT_TEMPLATES, ctx, window, heap, roster, pc, violations, gen, res, orc>>

(***************************************************************************)
(* Bounds of the model                                                     *)
(***************************************************************************)
MaxAssignments == 4      \* longest roster built by hand for the oracle and the resolver
MaxIterationsCap == 2    \* largest max_iterations tried for the resolver
NumDays == 5             \* longest planning window handed to the generator
MaxRuns == 2             \* rebalance_hours calls in a row on one roster

(***************************************************************************)
(* Dictionaries (Python dict): functions with a finite domain              *)
(***************************************************************************)
EmptyDict == [k \in {} |-> 0]
DictGet(d, k, default) == IF k \in DOMAIN d THEN d[k] ELSE default
DictSet(d, k, v) == [x \in (DOMAIN d) \cup {k} |-> IF x = k THEN v ELSE d[x]]

RECURSIVE Flatten(_)
Flatten(ss) == IF ss = <<>> THEN <<>> ELSE Head(ss) \o Flatten(Tail(ss))

RECURSIVE SumSet(_, _)
SumSet(S, f) ==
    IF S = {} THEN 0
    ELSE LET k == CHOOSE k \in S : TRUE IN f[k] + SumSet(S \ {k}, f)

(***************************************************************************)
(* core/models.py                                                          *)
(***************************************************************************)
ContractType == {"full_time", "part_time", "casual"}
SkillTag == {"kitchen", "counter", "mccafe", "dessert", "delivery", "manager"}
ViolationSeverity == {"hard", "soft"}
None == "None"     \* a missing station
NoDate == 0 - 1     \* a violation without a date
NoWeek == 0 - 1     \* a violation without a week index

ShiftAssignment(employee_id, date, shift_code, station, store_id) ==
    [employee_id |-> employee_id, date |-> date, shift_code |-> shift_code,
     station |-> station, store_id |-> store_id]

Roster(store_id, start_date, end_date, assignments) ==
    [store_id |-> store_id, start_date |-> start_date, end_date |-> end_date,
     assignments |-> assignments]

Violation(severity, code, employee_id, date, week) ==
    [severity |-> severity, code |-> code, employee_id |-> employee_id,
     date |-> date, week |-> week]

Employee(id, contract_type, skill_tags) ==
    [id |-> id, contract_type |-> contract_type, skill_tags |-> skill_tags]

(***************************************************************************)
(* compliance.py: catalog and legal constants                              *)
(***************************************************************************)
Time(h, m) == h * 60 + m
Template(start, end, hours) == [start |-> start, end |-> end, hours |-> hours]

DEFAULT_SHIFT_TEMPLATES ==
    ("S"  :> Template(Time(6, 30), Time(15, 0), 850)) @@
    ("1F" :> Template(Time(6, 30), Time(15, 30), 900)) @@
    ("2F" :> Template(Time(14, 0), Time(23, 0), 900)) @@
    ("3F" :> Template(Time(8, 0), Time(20, 0), 1200)) @@
    ("SC" :> Template(Time(11, 0), Time(20, 0), 900))

\* merged = DEFAULT_SHIFT_TEMPLATES.copy(); merged.update(templates);
\* an empty sheet result keeps the defaults
LoadShiftTemplates(templates) ==
    IF DOMAIN templates = {} THEN DEFAULT_SHIFT_TEMPLATES
    ELSE [code \in (DOMAIN DEFAULT_SHIFT_TEMPLATES) \cup (DOMAIN templates) |->
            IF code \in DOMAIN templates THEN templates[code]
            ELSE DEFAULT_SHIFT_TEMPLATES[code]]

DEFAULT_SHIFT_HOURS == 800
MIN_SHIFT_HOURS_CASUAL == 300
MIN_REST_HOURS_BETWEEN_DAYS == 1000
MAX_CONSECUTIVE_WORKING_DAYS == 6
WEEKLY_OVERTIME_TOLERANCE == 200

\* CONTRACT_HOURS_BOUNDS with the casual maximum lowered to 40.0h
CONTRACT_HOURS_BOUNDS_CasualMaxLowered ==
    ("full_time" :> <<7000, 7600>>) @@
    ("part_time" :> <<4000, 6400>>) @@
    ("casual"    :> <<1600, 4000>>)

CONTRACT_HOURS_BOUNDS ==
    ("full_time" :> <<7000, 7600>>) @@
    ("part_time" :> <<4000, 6400>>) @@
    ("casual"    :> <<1600, 4800>>)

WEEKLY_CONTRACT_HOURS_BOUNDS ==
    ("full_time" :> <<3500, 3800>>) @@
    ("part_time" :> <<2000, 3200>>) @@
    ("casual"    :> <<800, 2400>>)

\* SHIFT_HOURS = {code: float(tpl["hours"]) ...}
SHIFT_HOURS == [code \in DOMAIN SHIFT_TEMPLATES |-> SHIFT_TEMPLATES[code].hours]

\* ctx.employees is an insertion-ordered dict: a sequence of Employee
\* records with distinct ids
EmployeeIds(c) == {c.employees[i].id : i \in 1..Len(c.employees)}
EmployeeById(c, id) ==
    c.employees[CHOOSE i \in 1..Len(c.employees) : c.employees[i].id = id]

\* the assignment objects a list of references points to
Deref(h, refs) == [i \in 1..Len(refs) |-> h[refs[i]]]

(***************************************************************************)
(* ComplianceAgent.check_roster (c: context, r: roster value with the      *)
(* assignment records in list order)                                       *)
(***************************************************************************)
\* 1) total hours per employee, accumulated in list order
RECURSIVE HoursByEmp(_, _, _)
HoursByEmp(as, i, acc) ==
    IF i > Len(as) THEN acc
    ELSE LET a == as[i]
             hours == IF a.shift_code \in DOMAIN SHIFT_TEMPLATES
                      THEN SHIFT_TEMPLATES[a.shift_code].hours
                      ELSE DEFAULT_SHIFT_HOURS
         IN HoursByEmp(as, i + 1,
                DictSet(acc, a.employee_id, DictGet(acc, a.employee_id, 0) + hours))

\* BiweeklyCheck with the maximum compared by >= instead of >
BiweeklyCheck_AtMaxReported(emp, hours_by_emp) ==
    LET total_hours == DictGet(hours_by_emp, emp.id, 0)
        min_h == CONTRACT_HOURS_BOUNDS[emp.contract_type][1]
        max_h == CONTRACT_HOURS_BOUNDS[emp.contract_type][2]
    IN (IF total_hours < min_h
        THEN <<Violation("soft", "MIN_HOURS_NOT_MET", emp.id, NoDate, NoWeek)>>
        ELSE <<>>)
       \o
       (IF total_hours >= max_h
        THEN <<Violation("hard", "MAX_HOURS_EXCEEDED", emp.id, NoDate, NoWeek)>>
        ELSE <<>>)

\* 2) compare against the contract bounds
BiweeklyCheck(emp, hours_by_emp) ==
    LET total_hours == DictGet(hours_by_emp, emp.id, 0)
        min_h == CONTRACT_HOURS_BOUNDS[emp.contract_type][1]
        max_h == CONTRACT_HOURS_BOUNDS[emp.contract_type][2]
    IN (IF total_hours < min_h
        THEN <<Violation("soft", "MIN_HOURS_NOT_MET", emp.id, NoDate, NoWeek)>>
        ELSE <<>>)
       \o
       (IF total_hours > max_h
        THEN <<Violation("hard", "MAX_HOURS_EXCEEDED", emp.id, NoDate, NoWeek)>>
        ELSE <<>>)

\* 2b) weekly hours keyed by (employee, week index from roster start)
RECURSIVE WeeklyHours(_, _, _, _)
WeeklyHours(as, start_date, i, acc) ==
    IF i > Len(as) THEN acc
    ELSE LET a == as[i]
             hours == IF a.shift_code \in DOMAIN SHIFT_TEMPLATES
                      THEN SHIFT_TEMPLATES[a.shift_code].hours
                      ELSE DEFAULT_SHIFT_HOURS
             week_index == (a.date - start_date) \div 7
             key == <<a.employee_id, week_index>>
         IN IF a.date < start_date
            THEN WeeklyHours(as, start_date, i + 1, acc)
            ELSE WeeklyHours(as, start_date, i + 1,
                     DictSet(acc, key, DictGet(acc, key, 0) + hours))

\* the weeks the report loop visits: for week_index in (0, 1)
CheckedWeeks == <<0, 1>>

\* WeekCheck with an excess of exactly the tolerance reported
WeekCheck_ToleranceExclusive(emp, week_index, weekly_hours) ==
    LET key == <<emp.id, week_index>>
        min_w == WEEKLY_CONTRACT_HOURS_BOUNDS[emp.contract_type][1]
        max_w == WEEKLY_CONTRACT_HOURS_BOUNDS[emp.contract_type][2]
    IN IF key \notin DOMAIN weekly_hours THEN <<>>
       ELSE LET total_week == weekly_hours[key] IN
            (IF total_week < min_w
             THEN <<Violation("soft", "WEEKLY_MIN_HOURS_NOT_MET", emp.id, NoDate, week_index)>>
             ELSE <<>>)
            \o
            (IF total_week > max_w /\ ~(total_week - max_w < WEEKLY_OVERTIME_TOLERANCE)
             THEN <<Violation("soft", "WEEKLY_MAX_HOURS_EXCEEDED", emp.id, NoDate, week_index)>>
             ELSE <<>>)

WeekCheck(emp, week_index, weekly_hours) ==
    LET key == <<emp.id, week_index>>
        min_w == WEEKLY_CONTRACT_HOURS_BOUNDS[emp.contract_type][1]
        max_w == WEEKLY_CONTRACT_HOURS_BOUNDS[emp.contract_type][2]
    IN IF key \notin DOMAIN weekly_hours THEN <<>>
       ELSE LET total_week == weekly_hours[key] IN
            (IF total_week < min_w
             THEN <<Violation("soft", "WEEKLY_MIN_HOURS_NOT_MET", emp.id, NoDate, week_index)>>
             ELSE <<>>)
            \o
            (IF total_week > max_w /\ ~(total_week - max_w <= WEEKLY_OVERTIME_TOLERANCE)
             THEN <<Violation("soft", "WEEKLY_MAX_HOURS_EXCEEDED", emp.id, NoDate, week_index)>>
             ELSE <<>>)

WeeklyCheck(emp, weekly_hours) ==
    Flatten([w \in 1..Len(CheckedWeeks) |-> WeekCheck(emp, CheckedWeeks[w], weekly_hours)])

\* CasualCheck applied to every contract type
CasualCheck_AnyContract(c, a) ==
    IF a.employee_id \notin EmployeeIds(c) THEN <<>>
    ELSE IF a.shift_code \notin DOMAIN SHIFT_TEMPLATES THEN <<>>
    ELSE LET emp == EmployeeById(c, a.employee_id)
             hours == SHIFT_TEMPLATES[a.shift_code].hours
         IN IF hours < MIN_SHIFT_HOURS_CASUAL
            THEN <<Violation("hard", "MIN_SHIFT_LENGTH_CASUAL", emp.id, a.date, NoWeek)>>
            ELSE <<>>

\* 3) minimum shift length for casuals
CasualCheck(c, a) ==
    IF a.employee_id \notin EmployeeIds(c) THEN <<>>
    ELSE IF a.shift_code \notin DOMAIN SHIFT_TEMPLATES THEN <<>>
    ELSE LET emp == EmployeeById(c, a.employee_id)
             hours == SHIFT_TEMPLATES[a.shift_code].hours
         IN IF emp.contract_type = "casual" /\ hours < MIN_SHIFT_HOURS_CASUAL
            THEN <<Violation("hard", "MIN_SHIFT_LENGTH_CASUAL", emp.id, a.date, NoWeek)>>
            ELSE <<>>

\* sorted(..., key=lambda x: x.date): stable, ascending by date
RECURSIVE InsertByDate(_, _)
InsertByDate(sorted, a) ==
    IF sorted = <<>> THEN <<a>>
    ELSE IF sorted[Len(sorted)].date <= a.date THEN Append(sorted, a)
    ELSE Append(InsertByDate(SubSeq(sorted, 1, Len(sorted) - 1), a), sorted[Len(sorted)])

RECURSIVE SortedByDate(_)
SortedByDate(as) ==
    IF as = <<>> THEN <<>>
    ELSE InsertByDate(SortedByDate(SubSeq(as, 1, Len(as) - 1)), as[Len(as)])

EmpAssignments(as, emp_id) == SelectSeq(as, LAMBDA a : a.employee_id = emp_id)

\* ComplianceAgent._rest_hours_between, in hundredths of an hour
\* (template times are whole minutes; 3 minutes = 5 hundredths)
RestHoursBetween(prev, nxt) ==
    IF prev.shift_code \notin DOMAIN SHIFT_TEMPLATES
       \/ nxt.shift_code \notin DOMAIN SHIFT_TEMPLATES
    THEN 2400
    ELSE (((nxt.date * 1440 + SHIFT_TEMPLATES[nxt.shift_code].start)
           - (prev.date * 1440 + SHIFT_TEMPLATES[prev.shift_code].end)) * 100) \div 60

\* RestCheck with a rest of exactly the minimum reported
RestCheck_AtMinimumReported(emp, as) ==
    LET emp_assignments == SortedByDate(EmpAssignments(as, emp.id))
        Pair(i) ==
            LET prev == emp_assignments[i]
                nxt == emp_assignments[i + 1]
            IN IF nxt.date - prev.date # 1 THEN <<>>
               ELSE IF RestHoursBetween(prev, nxt) <= MIN_REST_HOURS_BETWEEN_DAYS
               THEN <<Violation("hard", "INSUFFICIENT_REST", emp.id, nxt.date, NoWeek)>>
               ELSE <<>>
    IN Flatten([i \in 1..(Len(emp_assignments) - 1) |-> Pair(i)])

\* 4) rest between consecutive days
RestCheck(emp, as) ==
    LET emp_assignments == SortedByDate(EmpAssignments(as, emp.id))
        Pair(i) ==
            LET prev == emp_assignments[i]
                nxt == emp_assignments[i + 1]
            IN IF nxt.date - prev.date # 1 THEN <<>>
               ELSE IF RestHoursBetween(prev, nxt) < MIN_REST_HOURS_BETWEEN_DAYS
               THEN <<Violation("hard", "INSUFFICIENT_REST", emp.id, nxt.date, NoWeek)>>
               ELSE <<>>
    IN Flatten([i \in 1..(Len(emp_assignments) - 1) |-> Pair(i)])

\* 5) maximum consecutive working days: walk the pairs, stop at the first excess
RECURSIVE StreakWalk(_, _, _, _)
StreakWalk(emp, emp_assignments, i, streak) ==
    IF i + 1 > Len(emp_assignments) THEN <<>>
    ELSE LET prev == emp_assignments[i]
             nxt == emp_assignments[i + 1]
             s == IF nxt.date - prev.date = 1 THEN streak + 1 ELSE 1
         IN IF s > MAX_CONSECUTIVE_WORKING_DAYS
            THEN <<Violation("hard", "MAX_CONSECUTIVE_DAYS_EXCEEDED", emp.id, nxt.date, NoWeek)>>
            ELSE StreakWalk(emp, emp_assignments, i + 1, s)

\* ConsecutiveCheck walking the assignments in list order, not by date
ConsecutiveCheck_Unsorted(emp, as) ==
    LET emp_assignments == EmpAssignments(as, emp.id)
    IN IF emp_assignments = <<>> THEN <<>>
       ELSE StreakWalk(emp, emp_assignments, 1, 1)

ConsecutiveCheck(emp, as) ==
    LET emp_assignments == SortedByDate(EmpAssignments(as, emp.id))
    IN IF emp_assignments = <<>> THEN <<>>
       ELSE StreakWalk(emp, emp_assignments, 1, 1)

\* UnknownCheck without the date of the assignment
UnknownCheck_Undated(c, a) ==
    IF a.employee_id \notin EmployeeIds(c)
    THEN <<Violation("hard", "UNKNOWN_EMPLOYEE", a.employee_id, NoDate, NoWeek)>>
    ELSE <<>>

\* 6) assignments of unknown employees
UnknownCheck(c, a) ==
    IF a.employee_id \notin EmployeeIds(c)
    THEN <<Violation("hard", "UNKNOWN_EMPLOYEE", a.employee_id, a.date, NoWeek)>>
    ELSE <<>>

\* check_roster with the unknown-employee check run before the others
check_roster_UnknownFirst(c, r) ==
    LET as == r.assignments
        emps == c.employees
        hours_by_emp == HoursByEmp(as, 1, EmptyDict)
        weekly_hours == WeeklyHours(as, r.start_date, 1, EmptyDict)
    IN Flatten([i \in 1..Len(as) |-> UnknownCheck(c, as[i])])
       \o Flatten([i \in 1..Len(emps) |-> BiweeklyCheck(emps[i], hours_by_emp)])
       \o Flatten([i \in 1..Len(emps) |-> WeeklyCheck(emps[i], weekly_hours)])
       \o Flatten([i \in 1..Len(as) |-> CasualCheck(c, as[i])])
       \o Flatten([i \in 1..Len(emps) |-> RestCheck(emps[i], as)])
       \o Flatten([i \in 1..Len(emps) |-> ConsecutiveCheck(emps[i], as)])

check_roster(c, r) ==
    LET as == r.assignments
        emps == c.employees
        hours_by_emp == HoursByEmp(as, 1, EmptyDict)
        weekly_hours == WeeklyHours(as, r.start_date, 1, EmptyDict)
    IN Flatten([i \in 1..Len(emps) |-> BiweeklyCheck(emps[i], hours_by_emp)])
       \o Flatten([i \in 1..Len(emps) |-> WeeklyCheck(emps[i], weekly_hours)])
       \o Flatten([i \in 1..Len(as) |-> CasualCheck(c, as[i])])
       \o Flatten([i \in 1..Len(emps) |-> RestCheck(emps[i], as)])
       \o Flatten([i \in 1..Len(emps) |-> ConsecutiveCheck(emps[i], as)])
       \o Flatten([i \in 1..Len(as) |-> UnknownCheck(c, as[i])])

\* the roster as the oracle reads it: its list of references resolved
RosterValue(h, r) == Roster(r.store_id, r.start_date, r.end_date, Deref(h, r.assignments))

(***************************************************************************)
(* generator.py: the CP-SAT model of generate_initial_roster               *)
(* (c: context, w: planning window).  A solution is the set x of decision  *)
(* variables <<employee id, date, shift code>> valued 1.                   *)
(***************************************************************************)
HOURS_SCALE == 2

\* int(round(hours * HOURS_SCALE)): Python rounds a half to the even;
\* the result is in units of 0.5h
HoursUnits(hours) ==
    LET n == hours * HOURS_SCALE
        q == n \div 100
        r == n % 100
    IN IF r < 50 THEN q
       ELSE IF r > 50 THEN q + 1
       ELSE IF q % 2 = 0 THEN q ELSE q + 1

\* generator._rest_hours_between_codes, in hundredths of an hour
RestHoursBetweenCodes(code_prev, code_next) ==
    IF code_prev \notin DOMAIN SHIFT_TEMPLATES \/ code_next \notin DOMAIN SHIFT_TEMPLATES
    THEN 2400
    ELSE (((1440 + SHIFT_TEMPLATES[code_next].start)
           - SHIFT_TEMPLATES[code_prev].end) * 100) \div 60

\* dates = [start_date, ..., end_date]
Dates(w) == [i \in 1..(w.end_date - w.start_date + 1) |-> w.start_date + i - 1]
DateSet(w) == {d \in w.start_date..w.end_date : TRUE}

\* AllowedShiftCodes read from every entry of the availability map
AllowedShiftCodes_AnyEmployee(c, emp_id, dt) ==
    UNION {DictGet(c.availability[e], dt, {}) : e \in DOMAIN c.availability}

\* availability_map.get(emp.id, {}).get(dt, set())
AllowedShiftCodes(c, emp_id, dt) ==
    DictGet(DictGet(c.availability, emp_id, EmptyDict), dt, {})

\* AllShiftCodes collected from the availability of the employees only
AllShiftCodes_OfEmployees(c) ==
    UNION {UNION {c.availability[e][dt] : dt \in DOMAIN c.availability[e]}
           : e \in (DOMAIN c.availability) \cap EmployeeIds(c)}

\* all_shift_codes: every code of every availability entry
AllShiftCodes(c) ==
    UNION {UNION {c.availability[e][dt] : dt \in DOMAIN c.availability[e]}
           : e \in DOMAIN c.availability}

\* the keys of x: one variable per allowed (employee, date, code)
VarsOfEmp(c, w, emp_id) ==
    UNION {{<<emp_id, dt, code>> : code \in AllowedShiftCodes(c, emp_id, dt)}
           : dt \in DateSet(w)}
DecisionVars(c, w) == UNION {VarsOfEmp(c, w, e) : e \in EmployeeIds(c)}

\* AtMostOneShiftPerDay with the sum taken per variable instead of per day
AtMostOneShiftPerDay_PerVariable(c, w, x) ==
    \A e \in EmployeeIds(c) : \A dt \in DateSet(w) :
        \A code \in AllowedShiftCodes(c, e, dt) :
            Cardinality({v \in x : v[1] = e /\ v[2] = dt /\ v[3] = code}) <= 1

\* 1) at most one shift per employee per day
AtMostOneShiftPerDay(c, w, x) ==
    \A e \in EmployeeIds(c) : \A dt \in DateSet(w) :
        Cardinality({v \in x : v[1] = e /\ v[2] = dt}) <= 1

\* sum of units * var over the variables of x on the given dates whose code
\* has a template (codes without a template contribute no term)
UnitsOf(x, emp_id, dts) ==
    LET terms == {v \in x : v[1] = emp_id /\ v[2] \in dts /\ v[3] \in DOMAIN SHIFT_TEMPLATES}
    IN SumSet(terms, [v \in terms |-> HoursUnits(SHIFT_TEMPLATES[v[3]].hours)])

\* 2) contract maximum over the whole horizon
ContractMaxHours(c, w, x) ==
    \A e \in EmployeeIds(c) :
        LET max_units == HoursUnits(CONTRACT_HOURS_BOUNDS[EmployeeById(c, e).contract_type][2])
        IN UnitsOf(x, e, DateSet(w)) <= max_units

\* 2b) weekly maximum with the overtime slack ot in 0 .. 2 * max_week_units
WeekDates(w, w_idx) == {dt \in DateSet(w) : (dt - w.start_date) \div 7 = w_idx}
WeekIndices(w) == {(dt - w.start_date) \div 7 : dt \in DateSet(w)}

OvertimeValues(c, w, x, e, w_idx) ==
    LET max_week_units ==
            HoursUnits(WEEKLY_CONTRACT_HOURS_BOUNDS[EmployeeById(c, e).contract_type][2])
    IN {ot \in 0..(max_week_units * 2) :
            UnitsOf(x, e, WeekDates(w, w_idx)) <= max_week_units + ot}

WeeklyMaxHours(c, w, x) ==
    \A e \in EmployeeIds(c) : \A w_idx \in WeekIndices(w) :
        OvertimeValues(c, w, x, e, w_idx) # {}

\* MinRestBetweenDays with the two codes handed over in the wrong order
MinRestBetweenDays_SwappedCodes(c, w, x) ==
    \A e \in EmployeeIds(c) : \A i \in 1..(Len(Dates(w)) - 1) :
        LET day == Dates(w)[i]
            next_day == Dates(w)[i + 1]
        IN \A code_today \in AllowedShiftCodes(c, e, day) :
           \A code_next \in AllowedShiftCodes(c, e, next_day) :
              RestHoursBetweenCodes(code_next, code_today) < MIN_REST_HOURS_BETWEEN_DAYS
                 => ~(<<e, day, code_today>> \in x /\ <<e, next_day, code_next>> \in x)

\* 3) minimum rest between consecutive days
MinRestBetweenDays(c, w, x) ==
    \A e \in EmployeeIds(c) : \A i \in 1..(Len(Dates(w)) - 1) :
        LET day == Dates(w)[i]
            next_day == Dates(w)[i + 1]
        IN \A code_today \in AllowedShiftCodes(c, e, day) :
           \A code_next \in AllowedShiftCodes(c, e, next_day) :
              RestHoursBetweenCodes(code_today, code_next) < MIN_REST_HOURS_BETWEEN_DAYS
                 => ~(<<e, day, code_today>> \in x /\ <<e, next_day, code_next>> \in x)

\* 4) demand and under-coverage per day: the values the slack uc may take
DemandToday(c, dt) ==
    LET by_station == DictGet(c.demand_by_date, dt, EmptyDict)
    IN SumSet(DOMAIN by_station, by_station)

DayVars(c, w, dt) == {v \in DecisionVars(c, w) : v[2] = dt}

UnderCoverageValues(c, w, x, dt) ==
    LET assigned == Cardinality({v \in x : v[2] = dt})
    IN {uc \in 0..Len(c.employees) :
            IF DayVars(c, w, dt) # {} /\ DemandToday(c, dt) > 0
            THEN assigned + uc >= DemandToday(c, dt)
            ELSE uc = 0}

DemandCoverage(c, w, x) ==
    \A dt \in DateSet(w) : UnderCoverageValues(c, w, x, dt) # {}

\* the hard constraints that speak about one employee at a time
EmployeeConstraints(c, w, x) ==
    /\ AtMostOneShiftPerDay(c, w, x)
    /\ ContractMaxHours(c, w, x)
    /\ WeeklyMaxHours(c, w, x)
    /\ MinRestBetweenDays(c, w, x)

\* all assignments of the variables the model admits
RECURSIVE EmployeeSolutions(_, _, _)
EmployeeSolutions(c, w, i) ==
    IF i = 0 THEN {{}}
    ELSE LET own == {xe \in SUBSET VarsOfEmp(c, w, c.employees[i].id) :
                        EmployeeConstraints(c, w, xe)}
         IN {xs \cup xe : xs \in EmployeeSolutions(c, w, i - 1), xe \in own}

FeasibleSolutions(c, w) ==
    {x \in EmployeeSolutions(c, w, Len(c.employees)) : DemandCoverage(c, w, x)}

\* sorted(codes): ascending string order of the shift codes in use
CodeRank ==
    ("1F" :> 1) @@ ("2F" :> 2) @@ ("3F" :> 3) @@ ("S" :> 4) @@ ("SC" :> 5) @@
    ("T" :> 6) @@ ("ZZ" :> 7)

RECURSIVE SortedCodes(_)
SortedCodes(codes) ==
    IF codes = {} THEN <<>>
    ELSE LET first == CHOOSE s \in codes : \A t \in codes : CodeRank[s] <= CodeRank[t]
         IN <<first>> \o SortedCodes(codes \ {first})

\* the insertion order of x: employees, then dates, then sorted codes
VarOrder(c, w) ==
    Flatten([i \in 1..Len(c.employees) |->
       Flatten([j \in 1..Len(Dates(w)) |->
          LET e == c.employees[i].id
              codes == SortedCodes(AllowedShiftCodes(c, e, Dates(w)[j]))
          IN [k \in 1..Len(codes) |-> <<e, Dates(w)[j], codes[k]>>]])])

\* the roster built from the solution: one ShiftAssignment per variable valued 1
DecodeSolution(c, w, store_id, x) ==
    LET chosen == SelectSeq(VarOrder(c, w), LAMBDA v : v \in x)
    IN [i \in 1..Len(chosen) |->
          ShiftAssignment(chosen[i][1], chosen[i][2], chosen[i][3], None, store_id)]

(***************************************************************************)
(* generator.py: soft penalties and the objective                          *)
(***************************************************************************)
\* start.hour < 7 or (start.hour == 7 and start.minute == 0)
OPENING_SHIFT_CODES ==
    {code \in DOMAIN SHIFT_TEMPLATES :
        LET start == SHIFT_TEMPLATES[code].start
        IN start \div 60 < 7 \/ (start \div 60 = 7 /\ start % 60 = 0)}

\* end.hour > 22 or (end.hour == 22 and end.minute == 0)
CLOSING_SHIFT_CODES ==
    {code \in DOMAIN SHIFT_TEMPLATES :
        LET end == SHIFT_TEMPLATES[code].end
        IN end \div 60 > 22 \/ (end \div 60 = 22 /\ end % 60 = 0)}

CoversLunchWindow(shift_code) ==
    /\ shift_code \in DOMAIN SHIFT_TEMPLATES
    /\ SHIFT_TEMPLATES[shift_code].start <= Time(14, 0)
    /\ SHIFT_TEMPLATES[shift_code].end >= Time(11, 0)

CoversDinnerWindow(shift_code) ==
    /\ shift_code \in DOMAIN SHIFT_TEMPLATES
    /\ SHIFT_TEMPLATES[shift_code].start <= Time(21, 0)
    /\ SHIFT_TEMPLATES[shift_code].end >= Time(17, 0)

Min(S) == CHOOSE m \in S : \A n \in S : m <= n

ManagerIds(c) ==
    {c.employees[i].id : i \in {j \in 1..Len(c.employees) :
        \E k \in 1..Len(c.employees[j].skill_tags) : c.employees[j].skill_tags[k] = "manager"}}

ManagerDayVars(c, w, dt) == {v \in DayVars(c, w, dt) : v[1] \in ManagerIds(c)}

\* sum of the under-coverage slacks at their least admissible value
TotalUnderCoverage(c, w, x) ==
    LET ds == DateSet(w)
    IN SumSet(ds, [dt \in ds |-> Min(UnderCoverageValues(c, w, x, dt))])

\* sum of the weekly overtime slacks (one per employee-week that has a term)
TotalOvertime(c, w, x) ==
    LET keys == {k \in EmployeeIds(c) \X WeekIndices(w) :
                    \E v \in VarsOfEmp(c, w, k[1]) :
                        v[2] \in WeekDates(w, k[2]) /\ v[3] \in DOMAIN SHIFT_TEMPLATES}
    IN SumSet(keys, [k \in keys |-> Min(OvertimeValues(c, w, x, k[1], k[2]))])

\* days on which a manager is available but none (none of class codes) is set
AbsenceDays(c, w, x, codes) ==
    {dt \in DateSet(w) :
        /\ ManagerDayVars(c, w, dt) # {}
        /\ \E v \in ManagerDayVars(c, w, dt) : v[3] \in codes
        /\ ~ \E v \in ManagerDayVars(c, w, dt) : v[3] \in codes /\ v \in x}

\* gap >= 2 - (managers set in the window), gap in 0..2; covering is the set
\* of codes whose template overlaps the window
PeakGap(c, w, x, dt, covering) ==
    LET peak_vars == {v \in ManagerDayVars(c, w, dt) : v[3] \in covering}
        set == Cardinality(peak_vars \cap x)
    IN IF peak_vars = {} THEN 0 ELSE Min({g \in 0..2 : g >= 2 - set})

TotalPeakTwoGap(c, w, x) ==
    LET ds == DateSet(w)
    IN SumSet(ds, [dt \in ds |-> PeakGap(c, w, x, dt, {code \in AllShiftCodes(c) : CoversLunchWindow(code)})
                                  + PeakGap(c, w, x, dt, {code \in AllShiftCodes(c) : CoversDinnerWindow(code)})])

\* value of model.Minimize(...) for x with every slack at its least value
Objective(c, w, x) ==
    TotalUnderCoverage(c, w, x) * 1000
    + TotalOvertime(c, w, x)
    + Cardinality(AbsenceDays(c, w, x, AllShiftCodes(c))) * 100
    + Cardinality(AbsenceDays(c, w, x, OPENING_SHIFT_CODES)) * 50
    + Cardinality(AbsenceDays(c, w, x, CLOSING_SHIFT_CODES)) * 50
    + TotalPeakTwoGap(c, w, x) * 10

(***************************************************************************)
(* Inputs of the runs                                                      *)
(***************************************************************************)
LastDay == NumDays - 1
StoreId == "store_1"

\* what the "Shift Codes" sheet may contribute: nothing, or a short custom
\* shift together with a longer 3F
ExcelSheets ==
    {EmptyDict,
     ("T" :> Template(Time(10, 0), Time(12, 0), 200)) @@
     ("3F" :> Template(Time(8, 0), Time(20, 30), 1250))}

Catalogs == {LoadShiftTemplates(sheet) : sheet \in ExcelSheets}

Crew(id, contract_type) == Employee(id, contract_type, <<"counter">>)
Manager(id, contract_type) == Employee(id, contract_type, <<"manager">>)

GenEmployees ==
    {<<>>}
    \cup {<<Crew("e1", ct)>> : ct \in {"casual", "full_time"}}
    \cup {<<Crew("e1", ct), Manager("e2", "casual")>> : ct \in {"casual", "full_time"}}
    \cup {<<Manager("e2", "casual"), Crew("e1", ct)>> : ct \in {"casual", "full_time"}}

\* one employee's allowed_shift_codes_by_date
AvailabilityRows ==
    {EmptyDict,
     [dt \in 0..LastDay |-> IF dt = LastDay THEN {"ZZ"} ELSE {"3F"}],
     [dt \in 0..1 |-> {"2F", "S"}],
     [dt \in {0} |-> {"S"}]}

\* the long row is tried for the first employee only
GenAvailability ==
    {av \in [{"e1", "e2"} -> AvailabilityRows] : DOMAIN av["e2"] # 0..LastDay}

DemandTables ==
    {EmptyDict,
     [dt \in 0..LastDay |-> ("kitchen" :> 1)],
     [dt \in {0} |-> ("kitchen" :> 2) @@ ("counter" :> 1)]}

NoRoster == Roster(None, 0, 0, <<>>)
GenIdle == [status |-> "NONE", x |-> {}, error |-> None]
\* the agent (max_iterations) and the locals of rebalance_hours before a call;
\* runs, passes, moves, input_roster and input_value record the calls made
ResInit(max_iterations) ==
    [max_iterations |-> max_iterations,
     logs |-> <<>>,
     assignments |-> <<>>,
     iteration |-> 0,
     hours_by_emp |-> EmptyDict,
     overloaded_ids |-> <<>>,
     k |-> 0,
     progress_made |-> FALSE,
     input_roster |-> NoRoster,
     input_value |-> NoRoster,
     runs |-> 0,
     moves_before |-> 0,
     passes |-> 0,
     moves |-> <<>>]
DEFAULT_MAX_ITERATIONS == 20
ResIdle == ResInit(DEFAULT_MAX_ITERATIONS)
\* OrchestratorAgent.run before it starts: no log line, the resolver not used,
\* no check_roster call made
OrcIdle ==
    [logs |-> <<>>,
     conflict_resolver_used |-> FALSE,
     hard_violations |-> <<>>,
     soft_violations |-> <<>>,
     checks |-> <<>>]

InitGen ==
    /\ SHIFT_TEMPLATES \in Catalogs
    /\ ctx \in [employees : GenEmployees,
                availability : GenAvailability,
                demand_by_date : DemandTables]
    /\ \E end_date \in {LastDay - 1, LastDay} :
          window = [start_date |-> 0, end_date |-> end_date]
    /\ heap = <<>>
    /\ roster = NoRoster
    /\ pc = "generate"
    /\ violations = <<>>
    /\ gen = GenIdle
    /\ res = ResIdle
    /\ orc = OrcIdle

(***************************************************************************)
(* CandidateGeneratorAgent.generate_initial_roster.  The solver is opaque: *)
(* under its time limit it may hand back any assignment that satisfies the *)
(* constraints (status FEASIBLE; OPTIMAL when it is also proved minimal,   *)
(* which the code treats alike), INFEASIBLE when there is none, or UNKNOWN *)
(* when max_time_in_seconds runs out before it has found or refuted one.   *)
(***************************************************************************)
generate_initial_roster ==
    /\ pc = "generate"
    /\ IF ctx.employees = <<>>
       THEN /\ gen' = [GenIdle EXCEPT !.error = "ValueError: No employees found in context."]
            /\ pc' = "failed"
            /\ UNCHANGED <<heap, roster>>
       ELSE IF AllShiftCodes(ctx) = {}
       THEN /\ gen' = [GenIdle EXCEPT
                          !.error = "ValueError: No shift codes discovered from availability."]
            /\ pc' = "failed"
            /\ UNCHANGED <<heap, roster>>
       ELSE LET solutions == FeasibleSolutions(ctx, window)
            IN \/ /\ solutions = {}
                  /\ gen' = [status |-> "INFEASIBLE", x |-> {},
                             error |-> "RuntimeError: CP-SAT solver failed"]
                  /\ pc' = "failed"
                  /\ UNCHANGED <<heap, roster>>
               \/ /\ gen' = [status |-> "UNKNOWN", x |-> {},
                             error |-> "RuntimeError: CP-SAT solver failed"]
                  /\ pc' = "failed"
                  /\ UNCHANGED <<heap, roster>>
               \/ \E x \in solutions :
                    /\ gen' = [status |-> "FEASIBLE", x |-> x, error |-> None]
                    /\ heap' = DecodeSolution(ctx, window, StoreId, x)
                    /\ roster' = Roster(StoreId, window.start_date, window.end_date,
                                        [i \in 1..Len(heap') |-> i])
                    /\ pc' = "generated"
    /\ UNCHANGED <<SHIFT_TEMPLATES, ctx, window, violations, res, orc>>

(***************************************************************************)
(* A check_roster call on the roster at hand                               *)
(***************************************************************************)
CheckRoster ==
    /\ pc \in {"generated", "built"}
    /\ violations' = check_roster(ctx, RosterValue(heap, roster))
    /\ pc' = "checked"
    /\ UNCHANGED <<SHIFT_TEMPLATES, ctx, window, heap, roster, gen, res, orc>>

NextGen == generate_initial_roster \/ CheckRoster

SpecGen == InitGen /\ [][NextGen]_vars

(***************************************************************************)
(* conflict_resolution.py: ConflictResolutionAgent                         *)
(***************************************************************************)
\* ShiftHours with the 24.0h fallback of the rest computation as the default
ShiftHours_RestDefault(shift_code) ==
    IF shift_code \in DOMAIN SHIFT_HOURS THEN SHIFT_HOURS[shift_code] ELSE 2400

ShiftHours(shift_code) ==
    IF shift_code \in DOMAIN SHIFT_HOURS THEN SHIFT_HOURS[shift_code] ELSE DEFAULT_SHIFT_HOURS

\* _compute_hours_by_employee over the objects the working list points to
RECURSIVE ComputeHoursByEmployee(_, _, _)
ComputeHoursByEmployee(as, i, acc) ==
    IF i > Len(as) THEN acc
    ELSE ComputeHoursByEmployee(as, i + 1,
            DictSet(acc, as[i].employee_id,
                    DictGet(acc, as[i].employee_id, 0) + ShiftHours(as[i].shift_code)))

\* OverloadedIds with the employees exactly at their maximum included
OverloadedIds_AtMaxIncluded(c, hours_by_emp) ==
    LET over(emp) == DictGet(hours_by_emp, emp.id, 0) >= CONTRACT_HOURS_BOUNDS[emp.contract_type][2]
        picked == SelectSeq(c.employees, over)
    IN [i \in 1..Len(picked) |-> picked[i].id]

\* the employees over their contract maximum, in the order of ctx.employees
OverloadedIds(c, hours_by_emp) ==
    LET over(emp) == DictGet(hours_by_emp, emp.id, 0) > CONTRACT_HOURS_BOUNDS[emp.contract_type][2]
        picked == SelectSeq(c.employees, over)
    IN [i \in 1..Len(picked) |-> picked[i].id]

\* FindReplacementEmployee without the test that the date is free
FindReplacementEmployee_BusyDateAllowed(c, as, hours_by_emp, date_, shift_code, shift_hours, exclude_emp_id) ==
    LET eligible(emp) ==
            /\ emp.id # exclude_emp_id
            /\ shift_code \in AllowedShiftCodes(c, emp.id, date_)
            /\ ~(DictGet(hours_by_emp, emp.id, 0) + shift_hours
                    > CONTRACT_HOURS_BOUNDS[emp.contract_type][2])
        below(emp) ==
            DictGet(hours_by_emp, emp.id, 0) < CONTRACT_HOURS_BOUNDS[emp.contract_type][1]
        under_min == SelectSeq(c.employees, LAMBDA emp : eligible(emp) /\ below(emp))
        normal == SelectSeq(c.employees, LAMBDA emp : eligible(emp) /\ ~below(emp))
    IN IF under_min # <<>> THEN under_min[1].id
       ELSE IF normal # <<>> THEN normal[1].id
       ELSE None

\* _find_replacement_employee: the first under-minimum candidate, else the
\* first in-bounds candidate, in the order of ctx.employees; None if neither
FindReplacementEmployee(c, as, hours_by_emp, date_, shift_code, shift_hours, exclude_emp_id) ==
    LET assigned_on_date == {as[i].employee_id : i \in {j \in 1..Len(as) : as[j].date = date_}}
        eligible(emp) ==
            /\ emp.id # exclude_emp_id
            /\ shift_code \in AllowedShiftCodes(c, emp.id, date_)
            /\ emp.id \notin assigned_on_date
            /\ ~(DictGet(hours_by_emp, emp.id, 0) + shift_hours
                    > CONTRACT_HOURS_BOUNDS[emp.contract_type][2])
        below(emp) ==
            DictGet(hours_by_emp, emp.id, 0) < CONTRACT_HOURS_BOUNDS[emp.contract_type][1]
        under_min == SelectSeq(c.employees, LAMBDA emp : eligible(emp) /\ below(emp))
        normal == SelectSeq(c.employees, LAMBDA emp : eligible(emp) /\ ~below(emp))
    IN IF under_min # <<>> THEN under_min[1].id
       ELSE IF normal # <<>> THEN normal[1].id
       ELSE None

\* emp_assignments.sort(key=lambda a: a.date, reverse=True) on references:
\* descending by date, equal dates keep their list order
RECURSIVE InsertByDateDesc(_, _, _)
InsertByDateDesc(h, sorted, ref) ==
    IF sorted = <<>> THEN <<ref>>
    ELSE IF h[sorted[Len(sorted)]].date >= h[ref].date THEN Append(sorted, ref)
    ELSE Append(InsertByDateDesc(h, SubSeq(sorted, 1, Len(sorted) - 1), ref),
                sorted[Len(sorted)])

\* SortedByDateDesc without the sort: the assignments in list order
SortedByDateDesc_ListOrder(h, refs) == refs

RECURSIVE SortedByDateDesc(_, _)
SortedByDateDesc(h, refs) ==
    IF refs = <<>> THEN <<>>
    ELSE InsertByDateDesc(h, SortedByDateDesc(h, SubSeq(refs, 1, Len(refs) - 1)),
                          refs[Len(refs)])

\* rebalance_hours, entry: logs = [], assignments = list(roster.assignments)
\* (a new list of the same objects)
RebalanceBegin ==
    /\ \/ pc = "built"
       \/ pc = "resolved" /\ res.runs < MaxRuns
    /\ res' = [ResInit(res.max_iterations) EXCEPT
                  !.assignments = roster.assignments,
                  !.input_roster = roster,
                  !.input_value = RosterValue(heap, roster),
                  !.runs = res.runs + 1,
                  !.moves_before = res.moves_before + Len(res.moves)]
    /\ pc' = "loop"
    /\ UNCHANGED <<SHIFT_TEMPLATES, ctx, window, heap, roster, violations, gen, orc>>

\* head of one pass of "for iteration in range(self.max_iterations)": the
\* hours, the overloaded employees, and the exit when there is none
PassBegin ==
    /\ pc = "loop"
    /\ IF res.iteration >= res.max_iterations
       THEN /\ pc' = "return"
            /\ UNCHANGED res
       ELSE LET hours_by_emp ==
                    ComputeHoursByEmployee(Deref(heap, res.assignments), 1, EmptyDict)
                overloaded_ids == OverloadedIds(ctx, hours_by_emp)
            IN IF overloaded_ids = <<>>
               THEN /\ res' = [res EXCEPT !.hours_by_emp = hours_by_emp,
                                          !.overloaded_ids = overloaded_ids,
                                          !.passes = @ + 1,
                                          !.logs = Append(@, <<"no overloaded employees remaining", res.iteration>>)]
                    /\ pc' = "return"
               ELSE /\ res' = [res EXCEPT !.hours_by_emp = hours_by_emp,
                                          !.overloaded_ids = overloaded_ids,
                                          !.passes = @ + 1,
                                          !.progress_made = FALSE,
                                          !.k = 1]
                    /\ pc' = "employee"
    /\ UNCHANGED <<SHIFT_TEMPLATES, ctx, window, heap, roster, violations, gen, orc>>

\* EmployeeStep without the update of the local hours map after a move
EmployeeStep_StaleHours ==
    /\ pc = "employee"
    /\ res.k <= Len(res.overloaded_ids)
    /\ LET overloaded_id == res.overloaded_ids[res.k]
           emp == EmployeeById(ctx, overloaded_id)
           max_h == CONTRACT_HOURS_BOUNDS[emp.contract_type][2]
           current_h == DictGet(res.hours_by_emp, overloaded_id, 0)
           as == Deref(heap, res.assignments)
           own == SelectSeq(res.assignments, LAMBDA ref : heap[ref].employee_id = overloaded_id)
           emp_assignments == SortedByDateDesc(heap, own)
           candidate(ref) ==
               FindReplacementEmployee(ctx, as, res.hours_by_emp, heap[ref].date,
                                       heap[ref].shift_code, ShiftHours(heap[ref].shift_code),
                                       overloaded_id)
           movable == {i \in 1..Len(emp_assignments) : candidate(emp_assignments[i]) # None}
       IN IF current_h <= max_h \/ movable = {}
          THEN /\ res' = [res EXCEPT !.k = @ + 1]
               /\ heap' = heap
          ELSE LET a == emp_assignments[Min(movable)]
                   candidate_id == candidate(a)
                   shift_hours == ShiftHours(heap[a].shift_code)
               IN /\ res' = [res EXCEPT
                               !.logs = Append(@, <<"Reassigning", heap[a].shift_code,
                                                    heap[a].date, overloaded_id, candidate_id>>),
                               !.progress_made = TRUE,
                               !.moves = Append(@, [ref |-> a, from |-> overloaded_id,
                                                    to |-> candidate_id, pass |-> res.iteration]),
                               !.k = @ + 1]
                  /\ heap' = [heap EXCEPT ![a].employee_id = candidate_id]
    /\ pc' = "employee"
    /\ UNCHANGED <<SHIFT_TEMPLATES, ctx, window, roster, violations, gen, orc>>

\* body of "for overloaded_id in overloaded_ids" for one employee
EmployeeStep ==
    /\ pc = "employee"
    /\ res.k <= Len(res.overloaded_ids)
    /\ LET overloaded_id == res.overloaded_ids[res.k]
           emp == EmployeeById(ctx, overloaded_id)
           max_h == CONTRACT_HOURS_BOUNDS[emp.contract_type][2]
           current_h == DictGet(res.hours_by_emp, overloaded_id, 0)
           as == Deref(heap, res.assignments)
           own == SelectSeq(res.assignments, LAMBDA ref : heap[ref].employee_id = overloaded_id)
           emp_assignments == SortedByDateDesc(heap, own)
           candidate(ref) ==
               FindReplacementEmployee(ctx, as, res.hours_by_emp, heap[ref].date,
                                       heap[ref].shift_code, ShiftHours(heap[ref].shift_code),
                                       overloaded_id)
           movable == {i \in 1..Len(emp_assignments) : candidate(emp_assignments[i]) # None}
       IN IF current_h <= max_h \/ movable = {}
          THEN /\ res' = [res EXCEPT !.k = @ + 1]
               /\ heap' = heap
          ELSE LET a == emp_assignments[Min(movable)]
                   candidate_id == candidate(a)
                   shift_hours == ShiftHours(heap[a].shift_code)
                   hours1 == [res.hours_by_emp EXCEPT ![overloaded_id] = @ - shift_hours]
                   hours2 == DictSet(hours1, candidate_id,
                                     DictGet(hours1, candidate_id, 0) + shift_hours)
               IN /\ res' = [res EXCEPT
                               !.logs = Append(@, <<"Reassigning", heap[a].shift_code,
                                                    heap[a].date, overloaded_id, candidate_id>>),
                               !.hours_by_emp = hours2,
                               !.progress_made = TRUE,
                               !.moves = Append(@, [ref |-> a, from |-> overloaded_id,
                                                    to |-> candidate_id, pass |-> res.iteration]),
                               !.k = @ + 1]
                  /\ heap' = [heap EXCEPT ![a].employee_id = candidate_id]
    /\ pc' = "employee"
    /\ UNCHANGED <<SHIFT_TEMPLATES, ctx, window, roster, violations, gen, orc>>

\* PassEnd without the exit on a pass that made no progress
PassEnd_NoProgressExit ==
    /\ pc = "employee"
    /\ res.k > Len(res.overloaded_ids)
    /\ res' = [res EXCEPT !.iteration = @ + 1]
    /\ pc' = "loop"
    /\ UNCHANGED <<SHIFT_TEMPLATES, ctx, window, heap, roster, violations, gen, orc>>

\* end of a pass: stop without progress, else go to the next iteration
PassEnd ==
    /\ pc = "employee"
    /\ res.k > Len(res.overloaded_ids)
    /\ IF ~res.progress_made
       THEN /\ res' = [res EXCEPT !.logs = Append(@, <<"no feasible reassignments found; stopping", res.iteration>>)]
            /\ pc' = "return"
       ELSE /\ res' = [res EXCEPT !.iteration = @ + 1]
            /\ pc' = "loop"
    /\ UNCHANGED <<SHIFT_TEMPLATES, ctx, window, heap, roster, violations, gen, orc>>

\* a return that builds the new roster without the last assignment of the list
RebalanceReturn_LastDropped ==
    /\ pc = "return"
    /\ roster' = Roster(roster.store_id, roster.start_date, roster.end_date,
                        SubSeq(res.assignments, 1, Len(res.assignments) - 1))
    /\ pc' = "resolved"
    /\ UNCHANGED <<SHIFT_TEMPLATES, ctx, window, heap, violations, gen, res, orc>>

\* new_roster = Roster(..., assignments=assignments); return new_roster, logs
RebalanceReturn ==
    /\ pc = "return"
    /\ roster' = Roster(roster.store_id, roster.start_date, roster.end_date, res.assignments)
    /\ pc' = "resolved"
    /\ UNCHANGED <<SHIFT_TEMPLATES, ctx, window, heap, violations, gen, res, orc>>

rebalance_hours == RebalanceBegin \/ PassBegin \/ EmployeeStep \/ PassEnd \/ RebalanceReturn

(***************************************************************************)
(* Rosters built by hand: the caller appends ShiftAssignment objects       *)
(***************************************************************************)
AddAssignment(options) ==
    /\ pc = "built"
    /\ Len(roster.assignments) < MaxAssignments
    /\ \E o \in options :
          /\ heap' = Append(heap, ShiftAssignment(o[1], o[2], o[3], None, StoreId))
          /\ roster' = [roster EXCEPT !.assignments = Append(@, Len(heap) + 1)]
    /\ UNCHANGED <<SHIFT_TEMPLATES, ctx, window, pc, violations, gen, res, orc>>

\* what the oracle runs are fed: a three-week roster with one known employee
\* on the first days of the weeks, a day before the roster start, and an
\* unknown employee
OracleOptions ==
    ({"e1"} \X {1, 8, 15} \X {"3F", "ZZ"}) \cup {<<"e1", 0, "3F">>, <<"u9", 1, "3F">>}

InitOracle ==
    /\ SHIFT_TEMPLATES \in Catalogs
    /\ ctx \in [employees : {<<Crew("e1", ct)>> : ct \in {"casual", "part_time"}},
                availability : {[e \in {"e1"} |-> EmptyDict]},
                demand_by_date : {EmptyDict}]
    /\ window = [start_date |-> 1, end_date |-> 21]
    /\ heap = <<>>
    /\ roster = Roster(StoreId, 1, 21, <<>>)
    /\ pc = "built"
    /\ violations = <<>>
    /\ gen = GenIdle
    /\ res = ResIdle
    /\ orc = OrcIdle

NextOracle == AddAssignment(OracleOptions) \/ CheckRoster

SpecOracle == InitOracle /\ [][NextOracle]_vars

\* what the resolver runs are fed: two casual employees, the first with up
\* to four shifts on two days, the second free to take some of them
ResolverOptions ==
    {<<"e1", 0, "3F">>, <<"e1", 1, "3F">>, <<"e1", 1, "ZZ">>, <<"e2", 1, "3F">>}

ResolverAvailabilityRows ==
    {EmptyDict, [dt \in 0..1 |-> {"3F"}], [dt \in {1} |-> {"3F", "ZZ"}]}

InitResolve ==
    /\ SHIFT_TEMPLATES \in Catalogs
    /\ ctx \in [employees : {<<Crew("e1", "casual"), Crew("e2", "casual")>>,
                             <<Crew("e2", "casual"), Crew("e1", "casual")>>},
                availability : {[e \in {"e1", "e2"} |-> IF e = "e1" THEN EmptyDict ELSE row]
                                : row \in ResolverAvailabilityRows},
                demand_by_date : {EmptyDict}]
    /\ window = [start_date |-> 0, end_date |-> 13]
    /\ heap = <<>>
    /\ roster = Roster(StoreId, 0, 13, <<>>)
    /\ pc = "built"
    /\ violations = <<>>
    /\ gen = GenIdle
    /\ \E m \in 0..MaxIterationsCap : res = ResInit(m)
    /\ orc = OrcIdle

NextResolve == AddAssignment(ResolverOptions) \/ rebalance_hours

SpecResolve == InitResolve /\ [][NextResolve]_vars

(***************************************************************************)
(* Generator runs that make the soft terms of the objective compete: a     *)
(* casual crew member who can work three long days of one week, and a      *)
(* part-time manager who can work two long days and an opening shift       *)
(***************************************************************************)
ObjectiveEmployees ==
    {<<Crew("e1", "casual")>>,
     <<Manager("e2", "part_time")>>,
     <<Crew("e1", "casual"), Manager("e2", "part_time")>>}

ObjectiveAvailability ==
    [e1 : {EmptyDict, [dt \in 0..2 |-> {"3F"}]},
     e2 : {EmptyDict, [dt \in 0..2 |-> IF dt = 2 THEN {"S"} ELSE {"3F"}]}]

InitObjective ==
    /\ SHIFT_TEMPLATES \in Catalogs
    /\ ctx \in [employees : ObjectiveEmployees,
                availability : ObjectiveAvailability,
                demand_by_date : DemandTables]
    /\ window = [start_date |-> 0, end_date |-> LastDay]
    /\ heap = <<>>
    /\ roster = NoRoster
    /\ pc = "generate"
    /\ violations = <<>>
    /\ gen = GenIdle
    /\ res = ResIdle
    /\ orc = OrcIdle

SpecObjective == InitObjective /\ [][NextGen]_vars

(***************************************************************************)
(* Rosters handed to the oracle whole: short lists in any order, runs of   *)
(* consecutive days, and the two-employee scenario                         *)
(***************************************************************************)
MaxListed == 3        \* longest roster listed assignment by assignment
MaxRun == 8           \* longest run of consecutive days
ScenarioDays == 9     \* days the five shifts of the scenario are spread over

\* the "Shift Codes" sheets of the oracle runs: those of the other runs, and
\* one with three short custom shifts of 2.0h, 2.01h and 3.0h
CheckSheets ==
    ExcelSheets \cup
    {("T" :> Template(Time(10, 0), Time(12, 0), 200)) @@
     ("U" :> Template(Time(10, 0), Time(12, 0), 201)) @@
     ("V" :> Template(Time(10, 0), Time(13, 0), 300))}

CheckCatalogs == {LoadShiftTemplates(sheet) : sheet \in CheckSheets}

CheckEmployees ==
    {<<Crew("e1", "casual")>>,
     <<Crew("e1", "part_time"), Crew("e2", "casual")>>,
     <<Crew("e2", "casual"), Crew("e1", "casual")>>}

SeqsUpTo(S, n) == UNION {[1..k -> S] : k \in 0..n}

Listed(options) ==
    {[i \in 1..Len(os) |-> ShiftAssignment(os[i][1], os[i][2], os[i][3], None, StoreId)]
        : os \in SeqsUpTo(options, MaxListed)}

\* one employee on days 1, 2 and 4 with late, early and unknown codes
RestOptions == ({"e1"} \X {1, 2, 4} \X {"2F", "S", "ZZ"}) \cup {<<"e1", 1, "3F">>}

\* long and short shifts inside one week, a second and an unknown employee
WeekOptions ==
    {<<"e1", 1, "3F">>, <<"e1", 1, "T">>, <<"e1", 1, "U">>, <<"e1", 2, "S">>,
     <<"e1", 9, "ZZ">>, <<"e2", 2, "T">>, <<"e2", 3, "V">>, <<"u9", 2, "T">>}

Run(emp_id, first, length) ==
    [i \in 1..length |-> ShiftAssignment(emp_id, first + i - 1, "S", None, StoreId)]

Reverse(s) == [i \in 1..Len(s) |-> s[Len(s) + 1 - i]]

\* a run from day 1, a gap of one or two days (one day: the runs join), and
\* a second run; listed by ascending or by descending date
RunRosters ==
    UNION {{Run("e1", 1, l1) \o Run("e1", l1 + gap, l2),
            Reverse(Run("e1", 1, l1) \o Run("e1", l1 + gap, l2))}
           : <<l1, gap, l2>> \in (0..MaxRun) \X {1, 2} \X (0..(MaxRun - 1))}

RECURSIVE Ascending(_)
Ascending(D) ==
    IF D = {} THEN <<>>
    ELSE LET first == CHOOSE d \in D : \A e \in D : d <= e
         IN <<first>> \o Ascending(D \ {first})

\* five "S" shifts of e1 on any five of the first days, one "T" shift of e2
ScenarioRosters ==
    {LET days == Ascending(D)
     IN [i \in 1..5 |-> ShiftAssignment("e1", days[i], "S", None, StoreId)]
        \o <<ShiftAssignment("e2", 1, "T", None, StoreId)>>
     : D \in {D \in SUBSET (1..ScenarioDays) : Cardinality(D) = 5}}

CheckRosters == Listed(RestOptions) \cup Listed(WeekOptions) \cup RunRosters \cup ScenarioRosters

\* a two-week roster from day 1, a three-week one when the assignments need it
InitCheck ==
    /\ SHIFT_TEMPLATES \in CheckCatalogs
    /\ ctx \in [employees : CheckEmployees,
                availability : {EmptyDict},
                demand_by_date : {EmptyDict}]
    /\ heap \in CheckRosters
    /\ \E end_date \in {14, 21} :
          /\ end_date = 14 <=> \A i \in 1..Len(heap) : heap[i].date <= 14
          /\ window = [start_date |-> 1, end_date |-> end_date]
          /\ roster = Roster(StoreId, 1, end_date, [i \in 1..Len(heap) |-> i])
    /\ pc = "built"
    /\ violations = <<>>
    /\ gen = GenIdle
    /\ res = ResIdle
    /\ orc = OrcIdle

\* a second check_roster call on the same context and roster
CheckRosterAgain ==
    /\ pc = "checked"
    /\ violations' = check_roster(ctx, RosterValue(heap, roster))
    /\ pc' = "rechecked"
    /\ UNCHANGED <<SHIFT_TEMPLATES, ctx, window, heap, roster, gen, res, orc>>

NextCheck == CheckRoster \/ CheckRosterAgain

SpecCheck == InitCheck /\ [][NextCheck]_vars

(***************************************************************************)
(* Rosters handed to the resolver whole: one or two overloaded employees   *)
(* and up to two others who may take their shifts                          *)
(***************************************************************************)
\* the shifts of e1 come with a station, those of the others without
Block(emp_id, D, code) ==
    LET days == Ascending(D)
        station == IF emp_id = "e1" THEN "kitchen" ELSE None
    IN [i \in 1..Len(days) |-> ShiftAssignment(emp_id, days[i], code, station, StoreId)]

\* e1 carries four or five long shifts, in one case listed latest first, in
\* others ending with a late shift or followed by a short one; e2 carries
\* nothing or five long shifts; e3 carries little, or a block of its own;
\* e4 carries nothing
RepairLoads ==
    [e1 : {Block("e1", 1..5, "3F"),
           Reverse(Block("e1", 1..5, "3F")),
           Block("e1", 1..4, "3F") \o Block("e1", {5}, "2F"),
           Block("e1", 1..5, "3F") \o Block("e1", {6}, "T"),
           Block("e1", 1..4, "3F")},
     e2 : {<<>>, Block("e2", 1..5, "3F"), Block("e2", 2..6, "3F")},
     e3 : {<<>>, Block("e3", {6}, "S"), Block("e3", {5}, "3F"),
           Block("e3", {6, 7, 8}, "3F"), Block("e3", 6..11, "S")}]

RepairRosters == {l.e1 \o l.e2 \o l.e3 : l \in RepairLoads}

\* ctx.employees in three insertion orders, e2 missing from one of them
RepairEmployees ==
    {<<Crew("e1", "casual"), Crew("e2", "casual"), Crew("e3", "casual"), Crew("e4", "casual")>>,
     <<Crew("e4", "casual"), Crew("e3", "part_time"), Crew("e2", "casual"), Crew("e1", "casual")>>,
     <<Crew("e1", "casual"), Crew("e4", "casual"), Crew("e3", "casual")>>}

AnyDay == [dt \in 1..6 |-> {"3F", "2F", "T"}]
FifthDay == [dt \in {5} |-> {"3F"}]

\* e1 and e2 may take any shift of the first six days; e3 and e4 may take
\* any, only a long one on the fifth day, or none
RepairAvailability ==
    {[e \in {"e1", "e2", "e3", "e4"} |->
         CASE e = "e3" -> rows[1] [] e = "e4" -> rows[2] [] OTHER -> AnyDay]
     : rows \in {<<AnyDay, AnyDay>>, <<AnyDay, EmptyDict>>,
                 <<FifthDay, EmptyDict>>, <<EmptyDict, EmptyDict>>}}

\* the catalogs of the other runs, and one whose sheet gives "T" no duration
RepairCatalogs ==
    Catalogs \cup {LoadShiftTemplates("T" :> Template(Time(10, 0), Time(10, 0), 0))}

InitRepair ==
    /\ SHIFT_TEMPLATES \in RepairCatalogs
    /\ ctx \in [employees : RepairEmployees,
                availability : RepairAvailability,
                demand_by_date : {EmptyDict}]
    /\ window = [start_date |-> 1, end_date |-> 14]
    /\ heap \in RepairRosters
    /\ roster = Roster(StoreId, 1, 14, [i \in 1..Len(heap) |-> i])
    /\ pc = "built"
    /\ violations = <<>>
    /\ gen = GenIdle
    /\ \E m \in {MaxIterationsCap, DEFAULT_MAX_ITERATIONS} : res = ResInit(m)
    /\ orc = OrcIdle

\* check_roster on the roster rebalance_hours returned
CheckRepaired ==
    /\ pc = "resolved"
    /\ violations' = check_roster(ctx, RosterValue(heap, roster))
    /\ pc' = "rechecked"
    /\ UNCHANGED <<SHIFT_TEMPLATES, ctx, window, heap, roster, gen, res, orc>>

NextRepair == rebalance_hours \/ CheckRepaired

SpecRepair == InitRepair /\ [][NextRepair]_vars

(***************************************************************************)
(* skill_station.py: SkillStationAgent.assign_stations                     *)
(***************************************************************************)
\* key order of a day's demand dict, as demand_coverage.py builds it
StationOrder == <<"kitchen", "counter", "mccafe", "dessert", "delivery">>

\* first pass over the assignments of one day: an employee with a skill that
\* is still in demand takes that station, the others are set aside
RECURSIVE SpecialistPass(_, _, _, _, _, _)
SpecialistPass(c, h, day, i, remaining, unassigned) ==
    IF i > Len(day)
    THEN [heap |-> h, remaining |-> remaining, unassigned |-> unassigned]
    ELSE LET a == day[i]
             emp_skills == IF h[a].employee_id \in EmployeeIds(c)
                           THEN EmployeeById(c, h[a].employee_id).skill_tags
                           ELSE <<>>
             wanted == SelectSeq(emp_skills, LAMBDA s : DictGet(remaining, s, 0) > 0)
         IN IF wanted # <<>>
            THEN SpecialistPass(c, [h EXCEPT ![a].station = wanted[1]], day, i + 1,
                                [remaining EXCEPT ![wanted[1]] = @ - 1], unassigned)
            ELSE SpecialistPass(c, h, day, i + 1, remaining, Append(unassigned, a))

\* second pass: the first station that still needs staff, else no change
RECURSIVE FillPass(_, _, _, _)
FillPass(h, unassigned, i, remaining) ==
    IF i > Len(unassigned) THEN h
    ELSE LET open == SelectSeq(StationOrder,
                               LAMBDA s : s \in DOMAIN remaining /\ remaining[s] > 0)
         IN IF open # <<>>
            THEN FillPass([h EXCEPT ![unassigned[i]].station = open[1]], unassigned, i + 1,
                          [remaining EXCEPT ![open[1]] = @ - 1])
            ELSE FillPass(h, unassigned, i + 1, remaining)

AssignDay(c, h, refs, dt) ==
    LET day == SelectSeq(refs, LAMBDA r : h[r].date = dt)
        first == SpecialistPass(c, h, day, 1, DictGet(c.demand_by_date, dt, EmptyDict), <<>>)
    IN FillPass(first.heap, first.unassigned, 1, first.remaining)

\* the days are independent of one another
RECURSIVE AssignStations(_, _, _, _)
AssignStations(c, h, refs, dts) ==
    IF dts = {} THEN h
    ELSE LET dt == CHOOSE d \in dts : TRUE
         IN AssignStations(c, AssignDay(c, h, refs, dt), refs, dts \ {dt})

(***************************************************************************)
(* orchestrator.py: OrchestratorAgent.run from the generation on.  The     *)
(* coverage, cost, export and explanation steps read the roster and the    *)
(* violations without changing them; their log lines are left out.         *)
(***************************************************************************)
Hard(vs) == SelectSeq(vs, LAMBDA v : v.severity = "hard")
Soft(vs) == SelectSeq(vs, LAMBDA v : v.severity = "soft")

\* a check_roster call of the run: what it was given, what it returned, and
\* how many rebalance_hours calls had been made
CheckCall(vs) ==
    [roster |-> RosterValue(heap, roster), violations |-> vs, repairs |-> res.runs]

\* 3b. roster = station_agent.assign_stations(ctx=ctx, roster=roster)
assign_stations ==
    /\ pc = "generated"
    /\ heap' = AssignStations(ctx, heap, roster.assignments,
                              {heap[roster.assignments[i]].date : i \in 1..Len(roster.assignments)})
    /\ roster' = Roster(roster.store_id, roster.start_date, roster.end_date,
                        roster.assignments)
    /\ orc' = [orc EXCEPT
                  !.logs = @ \o <<<<"Generated initial roster", Len(roster.assignments)>>,
                                  <<"Assigned stations">>>>]
    /\ pc' = "stationed"
    /\ UNCHANGED <<SHIFT_TEMPLATES, ctx, window, violations, gen, res>>

\* 4. first compliance pass
FirstCheck ==
    /\ pc = "stationed"
    /\ violations' = check_roster(ctx, RosterValue(heap, roster))
    /\ orc' = [orc EXCEPT
                  !.hard_violations = Hard(violations'),
                  !.soft_violations = Soft(violations'),
                  !.checks = Append(@, CheckCall(violations')),
                  !.logs = Append(@, <<"Initial compliance", Len(Hard(violations')),
                                       Len(Soft(violations'))>>)]
    /\ pc' = "first_checked"
    /\ UNCHANGED <<SHIFT_TEMPLATES, ctx, window, heap, roster, gen, res>>

\* RunResolver entered whatever the first check reported
RunResolver_Unconditional ==
    /\ pc = "first_checked"
    /\ orc' = [orc EXCEPT
                  !.conflict_resolver_used = TRUE,
                  !.logs = Append(@, <<"Running ConflictResolutionAgent">>)]
    /\ res' = [ResInit(DEFAULT_MAX_ITERATIONS) EXCEPT
                  !.assignments = roster.assignments,
                  !.input_roster = roster,
                  !.input_value = RosterValue(heap, roster),
                  !.runs = res.runs + 1]
    /\ pc' = "loop"
    /\ UNCHANGED <<SHIFT_TEMPLATES, ctx, window, heap, roster, violations, gen>>

\* 5. "if hard_violations:" taken: conf_agent = ConflictResolutionAgent() and
\* the entry of rebalance_hours
RunResolver ==
    /\ pc = "first_checked"
    /\ orc.hard_violations # <<>>
    /\ orc' = [orc EXCEPT
                  !.conflict_resolver_used = TRUE,
                  !.logs = Append(@, <<"Running ConflictResolutionAgent">>)]
    /\ res' = [ResInit(DEFAULT_MAX_ITERATIONS) EXCEPT
                  !.assignments = roster.assignments,
                  !.input_roster = roster,
                  !.input_value = RosterValue(heap, roster),
                  !.runs = res.runs + 1]
    /\ pc' = "loop"
    /\ UNCHANGED <<SHIFT_TEMPLATES, ctx, window, heap, roster, violations, gen>>

\* the log lines of the resolver, then compliance re-run on the repaired roster
SecondCheck ==
    /\ pc = "resolved"
    /\ violations' = check_roster(ctx, RosterValue(heap, roster))
    /\ orc' = [orc EXCEPT
                  !.hard_violations = Hard(violations'),
                  !.soft_violations = Soft(violations'),
                  !.checks = Append(@, CheckCall(violations')),
                  !.logs = @ \o [i \in 1..Len(res.logs) |-> <<"[ConflictResolution]", res.logs[i]>>]
                             \o <<<<"Post-resolution compliance", Len(Hard(violations')),
                                    Len(Soft(violations'))>>>>]
    /\ pc' = "second_checked"
    /\ UNCHANGED <<SHIFT_TEMPLATES, ctx, window, heap, roster, gen, res>>

\* 9. completion line and return OrchestratorResult(roster, violations, ...)
RunReturn ==
    /\ \/ pc = "first_checked" /\ orc.hard_violations = <<>>
       \/ pc = "second_checked"
    /\ orc' = [orc EXCEPT
                  !.logs = Append(@, <<"Orchestration completed",
                                       IF orc.conflict_resolver_used
                                       THEN "with conflict resolution"
                                       ELSE "no conflict resolution required">>)]
    /\ pc' = "returned"
    /\ UNCHANGED <<SHIFT_TEMPLATES, ctx, window, heap, roster, violations, gen, res>>

run ==
    \/ generate_initial_roster
    \/ assign_stations
    \/ FirstCheck
    \/ RunResolver
    \/ PassBegin \/ EmployeeStep \/ PassEnd \/ RebalanceReturn
    \/ SecondCheck
    \/ RunReturn

\* what the runs are fed: one casual employee who may be given four long
\* shifts and an uncatalogued one, and a second who may take that one over
\* or be given a short shift
RunEmployees ==
    {<<>>, <<Crew("e1", "casual")>>, <<Crew("e1", "casual"), Crew("e2", "casual")>>}

RunAvailability ==
    {[e \in {"e1", "e2"} |->
         IF e = "e1" THEN [dt \in 0..LastDay |-> IF dt = LastDay THEN {"ZZ"} ELSE {"3F"}]
         ELSE row]
     : row \in {EmptyDict, [dt \in {LastDay} |-> {"ZZ"}], [dt \in {0} |-> {"T"}]}}

InitRun ==
    /\ SHIFT_TEMPLATES \in Catalogs
    /\ ctx \in [employees : RunEmployees,
                availability : RunAvailability,
                demand_by_date : DemandTables]
    /\ window = [start_date |-> 0, end_date |-> LastDay]
    /\ heap = <<>>
    /\ roster = NoRoster
    /\ pc = "generate"
    /\ violations = <<>>
    /\ gen = GenIdle
    /\ res = ResIdle
    /\ orc = OrcIdle

SpecRun == InitRun /\ [][run]_vars

(***************************************************************************)
(* Generator runs under catalogs whose sheet gives one manager shift "T"   *)
(* every start time of day, or every end time of day                       *)
(***************************************************************************)
MinutesOfDay == 0..(24 * 60 - 1)

ClassifySheets ==
    {("T" :> Template(start, Time(15, 0), 850)) : start \in MinutesOfDay}
    \cup {("T" :> Template(Time(14, 0), end, 850)) : end \in MinutesOfDay}

ClassifyCatalogs == {LoadShiftTemplates(sheet) : sheet \in ClassifySheets}

InitClassify ==
    /\ SHIFT_TEMPLATES \in ClassifyCatalogs
    /\ ctx = [employees |-> <<Manager("e2", "part_time")>>,
              availability |-> [e \in {"e2"} |-> [dt \in {0} |-> {"T"}]],
              demand_by_date |-> EmptyDict]
    /\ window = [start_date |-> 0, end_date |-> 0]
    /\ heap = <<>>
    /\ roster = NoRoster
    /\ pc = "generate"
    /\ violations = <<>>
    /\ gen = GenIdle
    /\ res = ResIdle
    /\ orc = OrcIdle

SpecClassify == InitClassify /\ [][NextGen]_vars

(***************************************************************************)
(* Properties of the generator                                             *)
(***************************************************************************)
CountCode(vs, code, emp_id) ==
    Cardinality({i \in 1..Len(vs) : vs[i].code = code /\ vs[i].employee_id = emp_id})

HasCode(vs, code) == \E i \in 1..Len(vs) : vs[i].code = code

Assignments == Deref(heap, roster.assignments)

\* C1: the oracle reports no MAX_HOURS_EXCEEDED on a roster the generator
\* returned.
C1_GeneratedWithinContractMax ==
    (pc = "checked" /\ gen.status = "FEASIBLE") => ~HasCode(violations, "MAX_HOURS_EXCEEDED")

\* C2: the oracle reports no INSUFFICIENT_REST on a roster the generator
\* returned, and no employee holds two assignments on consecutive dates whose
\* template rest is below 10.0h.
C2_GeneratedHasMinRest ==
    (pc = "checked" /\ gen.status = "FEASIBLE") =>
        /\ ~HasCode(violations, "INSUFFICIENT_REST")
        /\ \A i, j \in 1..Len(Assignments) :
              LET a == Assignments[i]
                  b == Assignments[j]
              IN (/\ a.employee_id = b.employee_id
                  /\ b.date = a.date + 1
                  /\ a.shift_code \in DOMAIN SHIFT_TEMPLATES
                  /\ b.shift_code \in DOMAIN SHIFT_TEMPLATES)
                 => (1440 + SHIFT_TEMPLATES[b.shift_code].start)
                       - SHIFT_TEMPLATES[a.shift_code].end >= 600

\* an employee works two consecutive days on which the availability offered
\* a pair of codes with too little rest
C2_Witness ==
    /\ pc = "checked"
    /\ gen.status = "FEASIBLE"
    /\ \E i, j \in 1..Len(Assignments) :
          LET a == Assignments[i]
              b == Assignments[j]
          IN /\ a.employee_id = b.employee_id
             /\ b.date = a.date + 1
             /\ \E s \in AllowedShiftCodes(ctx, a.employee_id, a.date) :
                \E t \in AllowedShiftCodes(ctx, a.employee_id, b.date) :
                   /\ s \in DOMAIN SHIFT_TEMPLATES
                   /\ t \in DOMAIN SHIFT_TEMPLATES
                   /\ (1440 + SHIFT_TEMPLATES[t].start) - SHIFT_TEMPLATES[s].end < 600

\* C3: with at least one employee and one discoverable shift code the model
\* is feasible whatever the demand: the solve never ends INFEASIBLE.
C3_NeverInfeasibleFromShortfall ==
    (ctx.employees # <<>> /\ AllShiftCodes(ctx) # {}) => gen.status # "INFEASIBLE"

\* C4: in an accepted solution, on every date the number of assignments plus
\* the under-coverage slack is at least the total demand of the date.
C4_AssignedPlusSlackCoversDemand ==
    gen.status = "FEASIBLE" =>
        \A dt \in DateSet(window) :
           \A uc \in UnderCoverageValues(ctx, window, gen.x, dt) :
              Cardinality({v \in gen.x : v[2] = dt}) + uc >= DemandToday(ctx, dt)

\* C6: a roster the generator returned has no two assignments with the same
\* employee id and date.
C6_GeneratedOnePerEmployeeDay ==
    gen.status = "FEASIBLE" =>
        \A i, j \in 1..Len(Assignments) :
           (Assignments[i].employee_id = Assignments[j].employee_id
            /\ Assignments[i].date = Assignments[j].date) => i = j

\* an employee is assigned on a day for which two codes were allowed
C6_Witness ==
    /\ pc = "generated"
    /\ \E i \in 1..Len(Assignments) :
          Cardinality(AllowedShiftCodes(ctx, Assignments[i].employee_id,
                                        Assignments[i].date)) >= 2

(***************************************************************************)
(* Properties of the resolver                                              *)
(***************************************************************************)
InRebalance == pc \in {"loop", "employee", "return", "resolved"}

MovesInPass(p) == {i \in 1..Len(res.moves) : res.moves[i].pass = p}

\* total catalog hours of an employee in a list of assignment records
\* (8.0h for a code without a template)
TotalHours(as, emp_id) ==
    LET own == {i \in 1..Len(as) : as[i].employee_id = emp_id}
    IN SumSet(own, [i \in own |->
                      IF as[i].shift_code \in DOMAIN SHIFT_TEMPLATES
                      THEN SHIFT_TEMPLATES[as[i].shift_code].hours ELSE 800])

Balanced(as) ==
    \A i \in 1..Len(ctx.employees) :
        TotalHours(as, ctx.employees[i].id)
            <= CONTRACT_HOURS_BOUNDS[ctx.employees[i].contract_type][2]

\* C5: after rebalance_hours returns, the roster it was given and the
\* assignments of that roster are what they were at the call.
C5_InputRosterUnchanged ==
    pc = "resolved" => RosterValue(heap, res.input_roster) = res.input_value

\* C7: the repair loop makes at most max_iterations passes, every pass but
\* the last made a reassignment, and the loop ends either at the cap or with
\* a pass that made none.
C7_PassesBounded ==
    InRebalance =>
        /\ res.passes <= res.max_iterations
        /\ \A p \in 0..(res.passes - 2) : MovesInPass(p) # {}
        /\ pc \in {"return", "resolved"} =>
              (res.passes = res.max_iterations \/ MovesInPass(res.passes - 1) = {})

\* the loop ran out of iterations right after a pass that moved a shift
C7_Witness ==
    /\ pc = "resolved"
    /\ res.passes = res.max_iterations
    /\ MovesInPass(res.passes - 1) # {}

\* C8: on an input where no employee of the context is over the bi-weekly
\* maximum, rebalance_hours makes no reassignment, makes at most one pass and
\* returns the assignments it was given.
C8_BalancedInputIsReturned ==
    (pc = "resolved" /\ Balanced(res.input_value.assignments)) =>
        /\ res.moves = <<>>
        /\ res.passes <= 1
        /\ RosterValue(heap, roster) = res.input_value

\* the resolver was applied to its own repaired, balanced output
C8_Witness ==
    /\ pc = "resolved"
    /\ res.runs = 2
    /\ res.moves_before > 0
    /\ res.passes = 1
    /\ Balanced(res.input_value.assignments)

(***************************************************************************)
(* Properties of the oracle                                                *)
(***************************************************************************)
CheckedRoster == RosterValue(heap, roster)

\* C9: per employee of the context, exactly one soft MIN_HOURS_NOT_MET iff the
\* summed catalog hours are below the bi-weekly minimum, exactly one hard
\* MAX_HOURS_EXCEEDED iff they are above the maximum.
C9_BiweeklyHoursVerdict ==
    pc = "checked" =>
        \A n \in 1..Len(ctx.employees) :
            LET emp == ctx.employees[n]
                total == TotalHours(CheckedRoster.assignments, emp.id)
                low == {i \in 1..Len(violations) :
                           violations[i].code = "MIN_HOURS_NOT_MET"
                           /\ violations[i].employee_id = emp.id}
                high == {i \in 1..Len(violations) :
                           violations[i].code = "MAX_HOURS_EXCEEDED"
                           /\ violations[i].employee_id = emp.id}
            IN /\ Cardinality(low) =
                     (IF total < CONTRACT_HOURS_BOUNDS[emp.contract_type][1] THEN 1 ELSE 0)
               /\ Cardinality(high) =
                     (IF total > CONTRACT_HOURS_BOUNDS[emp.contract_type][2] THEN 1 ELSE 0)
               /\ \A i \in low : violations[i].severity = "soft"
               /\ \A i \in high : violations[i].severity = "hard"

\* an employee exactly at the bi-weekly maximum, with an unknown code counted
\* for another one
C9_Witness ==
    /\ pc = "checked"
    /\ \E n \in 1..Len(ctx.employees) :
          TotalHours(CheckedRoster.assignments, ctx.employees[n].id)
             = CONTRACT_HOURS_BOUNDS[ctx.employees[n].contract_type][2]
    /\ ~HasCode(violations, "MAX_HOURS_EXCEEDED")

\* hours of an employee in the 7-day bucket k counted from the roster start
BucketAssignments(r, emp_id, k) ==
    {i \in 1..Len(r.assignments) :
        /\ r.assignments[i].employee_id = emp_id
        /\ r.assignments[i].date >= r.start_date
        /\ (r.assignments[i].date - r.start_date) \div 7 = k}

BucketHours(r, emp_id, k) ==
    LET own == BucketAssignments(r, emp_id, k)
    IN SumSet(own, [i \in own |->
                      IF r.assignments[i].shift_code \in DOMAIN SHIFT_TEMPLATES
                      THEN SHIFT_TEMPLATES[r.assignments[i].shift_code].hours ELSE 800])

WeekReported(code, emp_id, k) ==
    \E i \in 1..Len(violations) :
        /\ violations[i].code = code
        /\ violations[i].employee_id = emp_id
        /\ violations[i].week = k

\* C10: for every employee of the context and every bucket k >= 0 in which
\* the employee has an assignment, the bucket's hours are held against the
\* weekly minimum and maximum; a bucket without assignments is not reported.
C10_EveryBucketChecked ==
    pc = "checked" =>
        \A n \in 1..Len(ctx.employees) : \A k \in 0..3 :
            LET emp == ctx.employees[n]
                worked == BucketAssignments(CheckedRoster, emp.id, k) # {}
                hours == BucketHours(CheckedRoster, emp.id, k)
                min_w == WEEKLY_CONTRACT_HOURS_BOUNDS[emp.contract_type][1]
                max_w == WEEKLY_CONTRACT_HOURS_BOUNDS[emp.contract_type][2]
            IN /\ WeekReported("WEEKLY_MIN_HOURS_NOT_MET", emp.id, k)
                     <=> (worked /\ hours < min_w)
               /\ WeekReported("WEEKLY_MAX_HOURS_EXCEEDED", emp.id, k)
                     <=> (worked /\ hours > max_w + 200)

\* the roster spans at most two weeks, so that every bucket is 0 or 1
TwoWeekRoster == roster.end_date - roster.start_date < 14

WeekMaxReports(emp_id, k) ==
    {i \in 1..Len(violations) :
        /\ violations[i].code = "WEEKLY_MAX_HOURS_EXCEEDED"
        /\ violations[i].employee_id = emp_id
        /\ violations[i].week = k}

C11_WitnessAbove ==
    /\ pc = "checked"
    /\ TwoWeekRoster
    /\ \E n \in 1..Len(ctx.employees) : \E k \in 0..1 :
          /\ BucketHours(CheckedRoster, ctx.employees[n].id, k)
                = WEEKLY_CONTRACT_HOURS_BOUNDS[ctx.employees[n].contract_type][2] + 201
          /\ Cardinality(WeekMaxReports(ctx.employees[n].id, k)) = 1

\* the positions of an employee's assignments in the checked roster
Own(emp_id) ==
    {i \in 1..Len(CheckedRoster.assignments) :
        CheckedRoster.assignments[i].employee_id = emp_id}

OnePerDate(emp_id) ==
    \A i, j \in Own(emp_id) :
        CheckedRoster.assignments[i].date = CheckedRoster.assignments[j].date => i = j

\* minutes from the end of the earlier shift to the start of the later one
RestMinutes(prev, nxt) ==
    (nxt.date - prev.date) * 1440
    + SHIFT_TEMPLATES[nxt.shift_code].start - SHIFT_TEMPLATES[prev.shift_code].end

\* the pairs of an employee's assignments on the days d - 1 and d whose
\* templates are both known and leave less than 10.0h (600 minutes) of rest
ShortRestPairs(emp_id, d) ==
    {p \in Own(emp_id) \X Own(emp_id) :
        LET prev == CheckedRoster.assignments[p[1]]
            nxt == CheckedRoster.assignments[p[2]]
        IN /\ prev.date = d - 1
           /\ nxt.date = d
           /\ prev.shift_code \in DOMAIN SHIFT_TEMPLATES
           /\ nxt.shift_code \in DOMAIN SHIFT_TEMPLATES
           /\ RestMinutes(prev, nxt) < 600}

RestReports(emp_id, d) ==
    {i \in 1..Len(violations) :
        /\ violations[i].code = "INSUFFICIENT_REST"
        /\ violations[i].employee_id = emp_id
        /\ violations[i].date = d}

RestVerdict(emp_id) ==
    /\ \A d \in 0..22 :
          Cardinality(RestReports(emp_id, d)) = Cardinality(ShortRestPairs(emp_id, d))
    /\ \A i \in 1..Len(violations) :
          (violations[i].code = "INSUFFICIENT_REST" /\ violations[i].employee_id = emp_id)
             => (violations[i].severity = "hard" /\ violations[i].date \in 0..22)

\* C12 as stated: for every employee of the context and every pair of the
\* employee's assignments on consecutive dates, exactly one hard
\* INSUFFICIENT_REST dated the later day iff the rest is below 10.0h; none
\* at exactly 10.0h, for unknown codes, or for dates further apart.
C12_RestRule ==
    pc = "checked" =>
        \A n \in 1..Len(ctx.employees) : RestVerdict(ctx.employees[n].id)

\* C12 amended: the same verdict for every employee of the context who has at
\* most one assignment per date (the pairs the oracle compares are the
\* neighbours in date order).
C12_RestRuleOnePerDate ==
    pc = "checked" =>
        \A n \in 1..Len(ctx.employees) :
            OnePerDate(ctx.employees[n].id) => RestVerdict(ctx.employees[n].id)

\* an employee with one assignment per date and a pair on consecutive days
\* with exactly 10.0h of rest, unreported
C12_Witness ==
    /\ pc = "checked"
    /\ \E n \in 1..Len(ctx.employees) :
          LET id == ctx.employees[n].id
          IN /\ OnePerDate(id)
             /\ \E i, j \in Own(id) :
                   LET prev == CheckedRoster.assignments[i]
                       nxt == CheckedRoster.assignments[j]
                   IN /\ nxt.date = prev.date + 1
                      /\ prev.shift_code \in DOMAIN SHIFT_TEMPLATES
                      /\ nxt.shift_code \in DOMAIN SHIFT_TEMPLATES
                      /\ RestMinutes(prev, nxt) = 600
                      /\ RestReports(id, nxt.date) = {}

\* an employee with one assignment per date and a short rest, reported once
C12_WitnessShort ==
    /\ pc = "checked"
    /\ \E n \in 1..Len(ctx.employees) : \E d \in 0..22 :
          /\ OnePerDate(ctx.employees[n].id)
          /\ ShortRestPairs(ctx.employees[n].id, d) # {}
          /\ Cardinality(RestReports(ctx.employees[n].id, d)) = 1

OwnDates(emp_id) == {CheckedRoster.assignments[i].date : i \in Own(emp_id)}

\* the days that are the 7th day of 7 consecutive dates with assignments
SeventhDays(emp_id) ==
    {d \in OwnDates(emp_id) : \A back \in 0..6 : d - back \in OwnDates(emp_id)}

StreakReports(emp_id) ==
    {i \in 1..Len(violations) :
        /\ violations[i].code = "MAX_CONSECUTIVE_DAYS_EXCEEDED"
        /\ violations[i].employee_id = emp_id}

\* C13: for every employee of the context with at most one assignment per
\* date, a hard MAX_CONSECUTIVE_DAYS_EXCEEDED is emitted iff the employee has
\* 7 or more consecutive dates with assignments, and then exactly one, dated
\* the 7th day of the first such run, however long or many the runs are.
C13_ConsecutiveDayCap ==
    pc = "checked" =>
        \A n \in 1..Len(ctx.employees) :
            LET id == ctx.employees[n].id
                sevenths == SeventhDays(id)
                reports == StreakReports(id)
            IN OnePerDate(id) =>
                  /\ Cardinality(reports) = (IF sevenths = {} THEN 0 ELSE 1)
                  /\ \A i \in reports :
                        /\ violations[i].severity = "hard"
                        /\ violations[i].date \in sevenths
                        /\ \A d \in sevenths : violations[i].date <= d

\* an employee with two separate runs of 7 days or more, listed by descending
\* date, and one report
C13_Witness ==
    /\ pc = "checked"
    /\ \E n \in 1..Len(ctx.employees) :
          LET id == ctx.employees[n].id
          IN /\ OnePerDate(id)
             /\ \E d, e \in SeventhDays(id) : e - d > 7 /\ d + 1 \notin OwnDates(id)
             /\ Cardinality(StreakReports(id)) = 1
             /\ \E i, j \in Own(id) :
                   i < j /\ CheckedRoster.assignments[i].date > CheckedRoster.assignments[j].date

\* the assignments of a casual employee of the context whose template lasts
\* less than 3.0h
ShortCasualAssignments ==
    {i \in 1..Len(CheckedRoster.assignments) :
        LET a == CheckedRoster.assignments[i]
        IN /\ \E n \in 1..Len(ctx.employees) :
                 ctx.employees[n].id = a.employee_id
                 /\ ctx.employees[n].contract_type = "casual"
           /\ a.shift_code \in DOMAIN SHIFT_TEMPLATES
           /\ SHIFT_TEMPLATES[a.shift_code].hours < 300}

CasualReports == {i \in 1..Len(violations) : violations[i].code = "MIN_SHIFT_LENGTH_CASUAL"}

\* C14: the hard MIN_SHIFT_LENGTH_CASUAL violations correspond one to one, in
\* roster order, to the assignments of casual employees of the context whose
\* template lasts less than 3.0h; other assignments yield none.
C14_CasualMinimumShift ==
    pc = "checked" =>
        /\ Cardinality(CasualReports) = Cardinality(ShortCasualAssignments)
        /\ \A i \in CasualReports :
              /\ violations[i].severity = "hard"
              /\ LET before == Cardinality({j \in CasualReports : j < i})
                     a == CHOOSE a \in ShortCasualAssignments :
                            Cardinality({b \in ShortCasualAssignments : b < a}) = before
                 IN /\ violations[i].employee_id = CheckedRoster.assignments[a].employee_id
                    /\ violations[i].date = CheckedRoster.assignments[a].date

\* a casual and a part-time employee of the context each with a 2.0h shift,
\* and an employee outside the context with one: one report
C14_Witness ==
    /\ pc = "checked"
    /\ Cardinality(ShortCasualAssignments) = 1
    /\ Cardinality(CasualReports) = 1
    /\ \E i, j \in 1..Len(CheckedRoster.assignments) :
          LET a == CheckedRoster.assignments[i]
              b == CheckedRoster.assignments[j]
          IN /\ i \notin ShortCasualAssignments
             /\ j \notin ShortCasualAssignments
             /\ a.shift_code = "T" /\ a.employee_id \in EmployeeIds(ctx)
             /\ b.shift_code = "T" /\ b.employee_id \notin EmployeeIds(ctx)
             /\ "T" \in DOMAIN SHIFT_TEMPLATES

KnownIds == {ctx.employees[n].id : n \in 1..Len(ctx.employees)}

UnknownAssignments ==
    {i \in 1..Len(CheckedRoster.assignments) :
        CheckedRoster.assignments[i].employee_id \notin KnownIds}

UnknownReports == {i \in 1..Len(violations) : violations[i].code = "UNKNOWN_EMPLOYEE"}

\* the checked roster without the assignments of unknown employees
KnownOnly ==
    [CheckedRoster EXCEPT
        !.assignments = SelectSeq(@, LAMBDA a : a.employee_id \in KnownIds)]

\* C15: the hard UNKNOWN_EMPLOYEE violations correspond one to one, in roster
\* order and with id and date, to the assignments whose employee id is not in
\* the context; such assignments yield nothing else: the other violations
\* are those of the roster without them.
C15_UnknownEmployee ==
    pc = "checked" =>
        /\ Cardinality(UnknownReports) = Cardinality(UnknownAssignments)
        /\ \A i \in UnknownReports :
              /\ violations[i].severity = "hard"
              /\ LET before == Cardinality({j \in UnknownReports : j < i})
                     a == CHOOSE a \in UnknownAssignments :
                            Cardinality({b \in UnknownAssignments : b < a}) = before
                 IN /\ violations[i].employee_id = CheckedRoster.assignments[a].employee_id
                    /\ violations[i].date = CheckedRoster.assignments[a].date
        /\ \A i \in 1..Len(violations) :
              violations[i].employee_id \notin KnownIds => i \in UnknownReports
        /\ SelectSeq(violations, LAMBDA v : v.code # "UNKNOWN_EMPLOYEE")
              = check_roster(ctx, KnownOnly)

\* two assignments of employees outside the context, one of them with a
\* short shift, next to an employee of the context with violations of its own
C15_Witness ==
    /\ pc = "checked"
    /\ Cardinality(UnknownAssignments) = 2
    /\ Cardinality(UnknownReports) = 2
    /\ \E i \in UnknownAssignments :
          /\ CheckedRoster.assignments[i].shift_code \in DOMAIN SHIFT_TEMPLATES
          /\ SHIFT_TEMPLATES[CheckedRoster.assignments[i].shift_code].hours < 300
    /\ \E i \in 1..Len(violations) : violations[i].employee_id \in KnownIds

\* the position of a violation code in the order of the checks
CheckGroup ==
    ("MIN_HOURS_NOT_MET" :> 1) @@ ("MAX_HOURS_EXCEEDED" :> 1) @@
    ("WEEKLY_MIN_HOURS_NOT_MET" :> 2) @@ ("WEEKLY_MAX_HOURS_EXCEEDED" :> 2) @@
    ("MIN_SHIFT_LENGTH_CASUAL" :> 3) @@
    ("INSUFFICIENT_REST" :> 4) @@
    ("MAX_CONSECUTIVE_DAYS_EXCEEDED" :> 5) @@
    ("UNKNOWN_EMPLOYEE" :> 6)

GroupedInCheckOrder(vs) ==
    \A i, j \in 1..Len(vs) : i < j => CheckGroup[vs[i].code] <= CheckGroup[vs[j].code]

NoEmployees == ctx.employees = <<>>

NoShiftCodes ==
    \A e \in DOMAIN ctx.availability :
        \A dt \in DOMAIN ctx.availability[e] : ctx.availability[e][dt] = {}

SolverFailed == gen.status \notin {"NONE", "OPTIMAL", "FEASIBLE"}

\* the triples (employee, date, code) of the assignments of the roster
RosterTriples ==
    {<<Assignments[i].employee_id, Assignments[i].date, Assignments[i].shift_code>>
        : i \in 1..Len(Assignments)}

\* C17: generation ends in an error, with no roster and no assignment object
\* left behind, exactly when the context has no employees, no shift code is
\* found in the availability, or the solver status is neither OPTIMAL nor
\* FEASIBLE; in every other case it returns the roster that has one
\* assignment per variable of the solution valued 1.
C17_GenerationAbortsOrDecodes ==
    /\ pc = "failed" =>
          /\ roster = NoRoster /\ heap = <<>>
          /\ gen.error # None
          /\ NoEmployees \/ NoShiftCodes \/ SolverFailed
    /\ (pc # "generate" /\ (NoEmployees \/ NoShiftCodes)) =>
          (pc = "failed" /\ gen.status = "NONE")
    /\ SolverFailed => pc = "failed"
    /\ pc \in {"generated", "checked"} =>
          /\ gen.status \in {"OPTIMAL", "FEASIBLE"}
          /\ gen.error = None
          /\ roster.store_id = StoreId
          /\ roster.start_date = window.start_date
          /\ roster.end_date = window.end_date
          /\ RosterTriples = gen.x
          /\ Len(Assignments) = Cardinality(gen.x)

\* a run with employees and shift codes that ended on an infeasible model
C17_Witness ==
    /\ pc = "failed"
    /\ ~NoEmployees
    /\ ~NoShiftCodes
    /\ gen.status = "INFEASIBLE"
    /\ roster = NoRoster

\* C18: every assignment of a roster the generator returned lies inside the
\* planning window, belongs to an employee of the context, and has a shift
\* code that the employee's availability allows on that date.
C18_AvailabilityIsHard ==
    pc \in {"generated", "checked"} =>
        \A i \in 1..Len(Assignments) :
            LET a == Assignments[i]
            IN /\ window.start_date <= a.date /\ a.date <= window.end_date
               /\ \E n \in 1..Len(ctx.employees) : ctx.employees[n].id = a.employee_id
               /\ a.employee_id \in DOMAIN ctx.availability
               /\ a.date \in DOMAIN ctx.availability[a.employee_id]
               /\ a.shift_code \in ctx.availability[a.employee_id][a.date]

\* a returned roster with assignments, although an employee is available on
\* a date after the window and another entry allows a code this employee's
\* entry does not
C18_Witness ==
    /\ pc = "generated"
    /\ Len(Assignments) > 0
    /\ \E n \in 1..Len(ctx.employees) :
          \E dt \in DOMAIN ctx.availability[ctx.employees[n].id] : dt > window.end_date
    /\ \E n \in 1..Len(ctx.employees) : \E e \in DOMAIN ctx.availability :
          \E dt \in DOMAIN ctx.availability[e] :
              ctx.availability[e][dt] \ AllowedShiftCodes(ctx, ctx.employees[n].id, dt) # {}

(***************************************************************************)
(* Properties of the objective                                             *)
(***************************************************************************)
\* the five penalty totals of a solution, in the order of their priority
Tiers(x) ==
    <<TotalUnderCoverage(ctx, window, x),
      TotalOvertime(ctx, window, x),
      Cardinality(AbsenceDays(ctx, window, x, AllShiftCodes(ctx))),
      Cardinality(AbsenceDays(ctx, window, x, OPENING_SHIFT_CODES))
         + Cardinality(AbsenceDays(ctx, window, x, CLOSING_SHIFT_CODES)),
      TotalPeakTwoGap(ctx, window, x)>>

\* s is better than t on the first tier on which they differ
BetterByPriority(s, t) ==
    \E k \in 1..5 : s[k] < t[k] /\ \A j \in 1..(k - 1) : s[j] = t[j]

\* C19: of two feasible solutions, the one that is better on the highest
\* tier on which they differ (coverage, overtime, manager presence,
\* opening/closing presence, peak double-manager gap) has the strictly
\* smaller objective value.
C19_ObjectiveIsLexicographic ==
    pc = "generated" =>
        \A y \in FeasibleSolutions(ctx, window) :
            BetterByPriority(Tiers(gen.x), Tiers(y))
               => Objective(ctx, window, gen.x) < Objective(ctx, window, y)

(***************************************************************************)
(* The two-employee scenario                                               *)
(***************************************************************************)
IsCasual(emp_id) ==
    \E n \in 1..Len(ctx.employees) :
        ctx.employees[n].id = emp_id /\ ctx.employees[n].contract_type = "casual"

\* e1 and e2 are casual; e1 has five "S" shifts of 8.5h and nothing else,
\* e2 has a single shift whose template lasts 2.0h
Scenario ==
    /\ IsCasual("e1") /\ IsCasual("e2")
    /\ Cardinality(Own("e1")) = 5
    /\ \A i \in Own("e1") : CheckedRoster.assignments[i].shift_code = "S"
    /\ "S" \in DOMAIN SHIFT_TEMPLATES /\ SHIFT_TEMPLATES["S"].hours = 850
    /\ Cardinality(Own("e2")) = 1
    /\ \A i \in Own("e2") :
          /\ CheckedRoster.assignments[i].shift_code \in DOMAIN SHIFT_TEMPLATES
          /\ SHIFT_TEMPLATES[CheckedRoster.assignments[i].shift_code].hours = 200

Reported(severity, code, emp_id) ==
    \E i \in 1..Len(violations) :
        /\ violations[i].severity = severity
        /\ violations[i].code = code
        /\ violations[i].employee_id = emp_id

HasAny(codes, emp_id) ==
    \E i \in 1..Len(violations) :
        violations[i].code \in codes /\ violations[i].employee_id = emp_id

ShortShiftVerdict ==
    /\ Reported("hard", "MIN_SHIFT_LENGTH_CASUAL", "e2")
    /\ Reported("soft", "MIN_HOURS_NOT_MET", "e2")

HardReports(vs) ==
    {<<vs[i].code, vs[i].employee_id>> : i \in {j \in 1..Len(vs) : vs[j].severity = "hard"}}

InputViolations == check_roster(ctx, res.input_value)

\* C21: every hard violation code that check_roster reports for an employee
\* on the roster rebalance_hours returned was already reported for that
\* employee on the input roster.
C21_NoNewHardViolation ==
    pc = "rechecked" => HardReports(violations) \subseteq HardReports(InputViolations)

\* the step appended a "Reassigning" line to the logs of rebalance_hours
Reassigning ==
    /\ Len(res'.logs) = Len(res.logs) + 1
    /\ res'.logs[Len(res'.logs)][1] = "Reassigning"

MaxOf(emp_id) == CONTRACT_HOURS_BOUNDS[EmployeeById(ctx, emp_id).contract_type][2]
MinOf(emp_id) == CONTRACT_HOURS_BOUNDS[EmployeeById(ctx, emp_id).contract_type][1]

\* C22: every reassignment changes the employee of exactly one assignment,
\* from an employee whose hours at that moment exceed their bi-weekly maximum
\* to a different employee who is available for the date and shift code and
\* whose hours after receiving the shift do not exceed their own maximum.
C22_ReassignmentIsSound ==
    [][Reassigning =>
          LET line == res'.logs[Len(res'.logs)]
              from == line[4]
              to == line[5]
              before == Deref(heap, res.assignments)
              after == Deref(heap', res.assignments)
              moved == {i \in 1..Len(heap) : heap'[i] # heap[i]}
          IN /\ Cardinality(moved) = 1
             /\ \A i \in moved :
                   /\ heap[i].employee_id = from
                   /\ heap'[i] = [heap[i] EXCEPT !.employee_id = to]
                   /\ heap[i].shift_code = line[2] /\ heap[i].date = line[3]
                   /\ line[2] \in AllowedShiftCodes(ctx, to, line[3])
             /\ to # from
             /\ from \in KnownIds /\ to \in KnownIds
             /\ TotalHours(before, from) > MaxOf(from)
             /\ TotalHours(after, to) <= MaxOf(to)]_vars

\* two shifts went to the same employee within one iteration
C22_Witness ==
    /\ pc = "resolved"
    /\ \E i, j \in 1..Len(res.moves) :
          /\ i < j
          /\ res.moves[i].pass = res.moves[j].pass
          /\ res.moves[i].to = res.moves[j].to

\* at most one assignment per (employee id, date) in a list of assignments
OnePerEmployeeDate(as) ==
    \A i, j \in 1..Len(as) :
        (as[i].employee_id = as[j].employee_id /\ as[i].date = as[j].date) => i = j

\* C23: if the input roster of rebalance_hours has at most one assignment per
\* (employee id, date), so have the working assignments at every point of the
\* call and the roster it returns.
C23_OnePerEmployeeDatePreserved ==
    (InRebalance /\ OnePerEmployeeDate(res.input_value.assignments)) =>
        /\ OnePerEmployeeDate(Deref(heap, res.assignments))
        /\ pc = "resolved" => OnePerEmployeeDate(CheckedRoster.assignments)

\* two shifts of the same date were reassigned within one iteration
C23_Witness ==
    /\ pc = "resolved"
    /\ OnePerEmployeeDate(res.input_value.assignments)
    /\ \E i, j \in 1..Len(res.moves) :
          /\ i < j
          /\ res.moves[i].pass = res.moves[j].pass
          /\ heap[res.moves[i].ref].date = heap[res.moves[j].ref].date

\* the assignment a "Reassigning" step moved
MovedRef == CHOOSE i \in 1..Len(heap) : heap'[i] # heap[i]

\* emp_id may receive assignment i of the working list from employee from:
\* another employee of the context, available for the date and code, free on
\* that date, and within the bi-weekly maximum after receiving it
Eligible(emp_id, from, i) ==
    LET working == Deref(heap, res.assignments)
    IN /\ emp_id \in KnownIds
       /\ emp_id # from
       /\ heap[i].shift_code \in AllowedShiftCodes(ctx, emp_id, heap[i].date)
       /\ \A j \in 1..Len(working) :
             ~(working[j].employee_id = emp_id /\ working[j].date = heap[i].date)
       /\ TotalHours(working, emp_id) + ShiftHours(heap[i].shift_code) <= MaxOf(emp_id)

EligibleFor(from, i) == {e \in KnownIds : Eligible(e, from, i)}

\* the eligible employees below their bi-weekly minimum if there is one,
\* else all the eligible employees
PreferredFor(from, i) ==
    LET below == {e \in EligibleFor(from, i) :
                     TotalHours(Deref(heap, res.assignments), e) < MinOf(e)}
    IN IF below # {} THEN below ELSE EligibleFor(from, i)

\* ascending employee identifier
CanonicalPosition == ("e1" :> 1) @@ ("e2" :> 2) @@ ("e3" :> 3) @@ ("e4" :> 4)

\* position in ctx.employees
InsertionPosition ==
    [id \in KnownIds |-> CHOOSE n \in 1..Len(ctx.employees) : ctx.employees[n].id = id]

\* a reassignment goes to the first employee of the preferred class in the
\* given order; an overloaded employee keeps all shifts in an iteration only
\* if none of them has an eligible receiver
ChoiceFollows(position) ==
    /\ Reassigning =>
          LET from == heap[MovedRef].employee_id
              to == heap'[MovedRef].employee_id
              class == PreferredFor(from, MovedRef)
          IN to \in class /\ \A e \in class : position[to] <= position[e]
    /\ (pc = "employee" /\ pc' = "employee" /\ ~Reassigning) =>
          LET id == res.overloaded_ids[res.k]
              working == Deref(heap, res.assignments)
          IN TotalHours(working, id) > MaxOf(id) =>
                \A i \in 1..Len(heap) :
                    (i \in {res.assignments[n] : n \in 1..Len(res.assignments)}
                       /\ heap[i].employee_id = id) => EligibleFor(id, i) = {}

\* C24: _find_replacement_employee returns an eligible employee below their
\* bi-weekly minimum whenever there is one and otherwise an in-bounds one,
\* within the class the one with the smallest employee identifier whatever
\* the insertion order of the context's employees, and none iff no employee
\* is eligible.
C24_PreferredCandidateSmallestId == [][ChoiceFollows(CanonicalPosition)]_vars

\* C25: a reassignment is the first of its iteration for the employee it
\* takes the shift from, that employee is over the maximum at that moment,
\* and no later-dated assignment of that employee has an eligible receiver.
C25_OneLatestShiftPerIteration ==
    [][Reassigning =>
          LET from == heap[MovedRef].employee_id
              working == Deref(heap, res.assignments)
          IN /\ \A n \in MovesInPass(res.iteration) : res.moves[n].from # from
             /\ TotalHours(working, from) > MaxOf(from)
             /\ \A i \in 1..Len(heap) :
                   (/\ i \in {res.assignments[n] : n \in 1..Len(res.assignments)}
                    /\ heap[i].employee_id = from
                    /\ EligibleFor(from, i) # {}) => heap[i].date <= heap[MovedRef].date]_vars

\* the first reassignment of a call passed over a later-dated shift of the
\* same employee
C25_Witness ==
    /\ pc = "resolved"
    /\ res.moves # <<>>
    /\ \E j \in 1..Len(res.input_value.assignments) :
          /\ res.input_value.assignments[j].employee_id = res.moves[1].from
          /\ res.input_value.assignments[j].date > heap[res.moves[1].ref].date

(***************************************************************************)
(* Properties of the run                                                   *)
(***************************************************************************)
Unstationed(as) == [i \in 1..Len(as) |-> [as[i] EXCEPT !.station = None]]

\* C26: when run returns, its first check_roster call was made on the
\* generated roster before any rebalance_hours call; rebalance_hours was
\* called (once) iff that check reported a hard violation; if it was called,
\* check_roster was called exactly once more, on the roster rebalance_hours
\* returned, and the result is that roster with the violations of that call;
\* if not, the result is the generated roster with the violations of the
\* first call.
C26_PipelineOrder ==
    pc = "returned" =>
        /\ Len(orc.checks) >= 1
        /\ orc.checks[1].repairs = 0
        /\ Unstationed(orc.checks[1].roster.assignments)
              = DecodeSolution(ctx, window, StoreId, gen.x)
        /\ \A n \in 1..Len(orc.checks) :
              orc.checks[n].violations = check_roster(ctx, orc.checks[n].roster)
        /\ res.runs = (IF Hard(orc.checks[1].violations) # <<>> THEN 1 ELSE 0)
        /\ orc.conflict_resolver_used <=> res.runs = 1
        /\ IF res.runs = 1
           THEN /\ Len(orc.checks) = 2
                /\ orc.checks[2].repairs = 1
                /\ orc.checks[2].roster
                      = Roster(StoreId, window.start_date, window.end_date,
                               Deref(heap, res.assignments))
                /\ CheckedRoster = orc.checks[2].roster
                /\ violations = orc.checks[2].violations
           ELSE /\ Len(orc.checks) = 1
                /\ CheckedRoster = orc.checks[1].roster
                /\ violations = orc.checks[1].violations

\* a run whose resolver moved a shift and whose result is the changed roster
C26_Witness ==
    /\ pc = "returned"
    /\ res.runs = 1
    /\ res.moves # <<>>
    /\ CheckedRoster # orc.checks[1].roster
    /\ Hard(violations) = <<>>

\* a run that returned without calling the resolver
C26_WitnessNoRepair ==
    /\ pc = "returned"
    /\ res.runs = 0
    /\ Len(CheckedRoster.assignments) > 0
    /\ violations # <<>>

(***************************************************************************)
(* Properties of the shift classification                                  *)
(***************************************************************************)
\* C27: a shift code of the catalog is in OPENING_SHIFT_CODES exactly when
\* its template starts at or before 07:00, and in CLOSING_SHIFT_CODES exactly
\* when its template ends at or after 22:00.
C27_OpeningClosingClassification ==
    \A code \in DOMAIN SHIFT_TEMPLATES :
        /\ code \in OPENING_SHIFT_CODES <=> SHIFT_TEMPLATES[code].start <= Time(7, 0)
        /\ code \in CLOSING_SHIFT_CODES <=> SHIFT_TEMPLATES[code].end >= Time(22, 0)

(***************************************************************************)
(* The resolver against the oracle                                         *)
(***************************************************************************)
MaxHoursReported(vs) ==
    {vs[i].employee_id : i \in {j \in 1..Len(vs) : vs[j].code = "MAX_HOURS_EXCEEDED"}}

\* the roster the working assignments of rebalance_hours would make
WorkingRoster ==
    Roster(roster.store_id, roster.start_date, roster.end_date,
           Deref(heap, res.assignments))

StoppedBalanced ==
    /\ res.logs # <<>>
    /\ res.logs[Len(res.logs)][1] = "no overloaded employees remaining"

\* C28: at the head of every iteration the employees rebalance_hours finds
\* overloaded are those for which check_roster reports MAX_HOURS_EXCEEDED on
\* the same assignments; and when rebalance_hours stopped because none was
\* left, check_roster reports no MAX_HOURS_EXCEEDED on the returned roster.
C28_OverloadedLikeTheOracle ==
    [][/\ (pc = "loop" /\ res'.passes = res.passes + 1) =>
             {res'.overloaded_ids[n] : n \in 1..Len(res'.overloaded_ids)}
                = MaxHoursReported(check_roster(ctx, WorkingRoster))
       /\ (pc' = "rechecked" /\ StoppedBalanced) =>
             MaxHoursReported(violations') = {}]_vars

\* a repair that ended with nobody overloaded, on an input the oracle had
\* reported MAX_HOURS_EXCEEDED for
C28_Witness ==
    /\ pc = "rechecked"
    /\ StoppedBalanced
    /\ res.moves # <<>>
    /\ MaxHoursReported(InputViolations) # {}
    /\ MaxHoursReported(violations) = {}

(***************************************************************************)
(* Monotonicity of the repair                                              *)
(***************************************************************************)
\* the employees of the context over their bi-weekly maximum
Over(as) == {e \in KnownIds : TotalHours(as, e) > MaxOf(e)}

\* total hours above the bi-weekly maxima, over the employees of the context
Excess(as) ==
    SumSet(KnownIds, [e \in KnownIds |->
                        IF TotalHours(as, e) > MaxOf(e)
                        THEN TotalHours(as, e) - MaxOf(e) ELSE 0])

MaxHoursCount(vs) ==
    Cardinality({i \in 1..Len(vs) : vs[i].code = "MAX_HOURS_EXCEEDED"})

\* within a call no employee becomes overloaded, no overloaded employee
\* receives a shift, and the returned roster gets no more MAX_HOURS_EXCEEDED
\* than the input
NoNewOverload ==
    /\ pc \in {"loop", "employee"} =>
          Over(Deref(heap', res'.assignments)) \subseteq Over(Deref(heap, res.assignments))
    /\ Reassigning =>
          heap'[MovedRef].employee_id \notin Over(Deref(heap, res.assignments))
    /\ pc' = "rechecked" => MaxHoursCount(violations') <= MaxHoursCount(InputViolations)

ReassigningLines ==
    Cardinality({j \in 1..Len(res.logs) : res.logs[j][1] = "Reassigning"})

\* the assignments of roster value r on date d with shift code c
OnDateWithCode(r, d, c) ==
    Cardinality({i \in 1..Len(r.assignments) :
                    r.assignments[i].date = d /\ r.assignments[i].shift_code = c})

\* C30: the roster rebalance_hours returns has the store id, start date, end
\* date and number of assignments of its input, every assignment keeps its
\* date, shift code, station and store id (so every date keeps its count of
\* every shift code), and the assignments whose employee differs from the
\* input are at most as many as the "Reassigning" log lines.
C30_OnlyEmployeesChange ==
    pc = "resolved" =>
        LET out == RosterValue(heap, roster)
            inp == res.input_value
        IN  /\ out.store_id = inp.store_id
            /\ out.start_date = inp.start_date
            /\ out.end_date = inp.end_date
            /\ Len(out.assignments) = Len(inp.assignments)
            /\ \A i \in 1..Len(inp.assignments) :
                  /\ out.assignments[i].date = inp.assignments[i].date
                  /\ out.assignments[i].shift_code = inp.assignments[i].shift_code
                  /\ out.assignments[i].station = inp.assignments[i].station
                  /\ out.assignments[i].store_id = inp.assignments[i].store_id
            /\ \A i \in 1..Len(inp.assignments) :
                  OnDateWithCode(out, inp.assignments[i].date, inp.assignments[i].shift_code)
                     = OnDateWithCode(inp, inp.assignments[i].date,
                                      inp.assignments[i].shift_code)
            /\ Cardinality({i \in 1..Len(inp.assignments) :
                              out.assignments[i].employee_id
                                 # inp.assignments[i].employee_id})
                  <= ReassigningLines

\* a call returned after reassigning several shifts, one of which had been
\* given a station and one of which had none
C30_Witness ==
    LET moved == {i \in 1..Len(res.input_value.assignments) :
                     heap[roster.assignments[i]].employee_id
                        # res.input_value.assignments[i].employee_id}
    IN  /\ pc = "resolved"
        /\ ReassigningLines >= 2
        /\ \E i \in moved : res.input_value.assignments[i].station # None
        /\ \E i \in moved : res.input_value.assignments[i].station = None

====
